---- MODULE Spec2Model ----
(***************************************************************************)
(* Slurm job manager: the VS Code extension (SlurmJobProvider,             *)
(* JobsWebviewProvider, extension commands) and the terminal UI            *)
(* (slurm_manager.sh), modelled as state machines over a small universe    *)
(* of jobs.                                                                *)
(***************************************************************************)
EXTENDS Integers, Sequences, FiniteSets, TLC

(***************************************************************************)
(* Bounds and the universe of inputs                                       *)
(***************************************************************************)

\* number of distinct job identifiers the scheduler ever reports
MaxJobs == 2

\* job identifiers are strings; the i-th job of the universe has id IdOf[i]
IdOf == <<"1", "2", "3", "4">>

JobIds == {IdOf[i] : i \in 1..MaxJobs}

\* display names, as sequences of characters (a job keeps its name for life)
NameOf ==
    [id \in {"1", "2", "3", "4"} |->
        CASE id = "1" -> <<"t", "r", "a", "i", "n">>
          [] id = "2" -> <<"T", "e", "s", "t">>
          [] id = "3" -> <<"e", "v", "a", "l">>
          [] OTHER    -> <<"T", "R", "2">>]

\* the state squeue reports for each job of the universe while it is queued
StatusOf ==
    [id \in {"1", "2", "3", "4"} |-> IF id \in {"1", "3"} THEN "RUNNING" ELSE "PENDING"]

\* final states sacct reports ("" stands for no sacct output)

SacctOut == {"", "COMPLETED"}

\* pattern texts the operator submits: empty, "^t" and the invalid "("
Patterns == {<<>>, <<"^", "t">>, <<"(">>}

MkJob(id, st) == [jobId |-> id, name |-> NameOf[id], status |-> st]

Range(s) == {s[i] : i \in 1..Len(s)}

Ids(jobs) == {jobs[i].jobId : i \in 1..Len(jobs)}

\* squeue listings: the jobs of a subset of the universe, in id order
RECURSIVE Listings(_)
Listings(n) ==
    IF n = 0 THEN {<<>>}
    ELSE LET rest == Listings(n - 1)
         IN  rest \cup {Append(q, MkJob(IdOf[n], StatusOf[IdOf[n]])) : q \in rest}

AllListings == Listings(MaxJobs)

\* a failed squeue (tooling absent, or an error): no output
Unavailable == [avail |-> FALSE, queue |-> <<>>, sacct |-> ""]

\* filter-field texts of the terminal UI are at most MaxLen characters long
MaxLen == 1

\* the printable keys typed into the terminal UI's filter field
FilterKeys == {"r", "("}

\* getSlurmJobs() calls followed at once from their start to their completion
MaxInFlight == 2

(***************************************************************************)
(* Regular expressions: literals, a leading ^ anchor, and the unterminated *)
(* group "(" which does not compile                                        *)
(***************************************************************************)

ToLower(c) ==
    CASE c = "T" -> "t"
      [] c = "R" -> "r"
      [] OTHER   -> c

\* new RegExp(pattern, 'i'): ok = FALSE stands for the SyntaxError thrown
NewRegExp(pattern, ignoreCase) ==
    IF \E i \in 1..Len(pattern) : pattern[i] = "("
    THEN [ok |-> FALSE, anchored |-> FALSE, body |-> <<>>, ci |-> ignoreCase]
    ELSE IF Len(pattern) > 0 /\ pattern[1] = "^"
         THEN [ok |-> TRUE, anchored |-> TRUE, body |-> Tail(pattern), ci |-> ignoreCase]
         ELSE [ok |-> TRUE, anchored |-> FALSE, body |-> pattern, ci |-> ignoreCase]

Fold(re, c) == IF re.ci THEN ToLower(c) ELSE c

\* regex.test(name): an unanchored search unless the pattern starts with ^
RegexTest(re, name) ==
    /\ re.ok
    /\ \E start \in (IF re.anchored THEN {1} ELSE 1..(Len(name) + 1)) :
          \A k \in 1..Len(re.body) :
              /\ start + k - 1 <= Len(name)
              /\ Fold(re, name[start + k - 1]) = Fold(re, re.body[k])

(***************************************************************************)
(* State                                                                   *)
(***************************************************************************)
VARIABLES
    \* JobsWebviewProvider
    selectedJobs,             \* Set<string>
    highlightRegex,           \* <<>> for null, <<re>> for a RegExp
    isConfirmingKillAll,
    isPastJobsExpanded,
    isScheduledJobsExpanded,
    viewPending,              \* an updateView() call has been started
    inFlight,                 \* getSlurmJobs() calls awaited, with what resumes after each
    \* SlurmJobProvider
    jobsToConfirm,            \* Set<string>
    filterRegex,              \* <<>> for null, <<re>> for a RegExp
    lastKnownJobs,            \* Map<string, Job> in insertion order
    notifiedJobs,             \* Set<string>
    \* slurm_manager.sh
    surface,                  \* the front end that runs: "webview" or "terminal"
    jobs_data,                \* rows of the last squeue listing
    selected_index,           \* cursor row: -1 is the header, 0 the first job
    selected_jobs,            \* bash array of job ids
    filter_mode,              \* 0: normal mode, 1: filter mode
    filter_text,
    cursor_pos,
    entered_regex_with_down,
    \* what the last step did, as seen from outside
    last,                     \* [op, id, pat, kills, msgs, env, changed, drew]
    jobsSeen,                 \* job list a select-all, a bulk selection or a poll worked on
    sel0,                     \* selection before the last toggle, select-all or bulk selection
    twice,                    \* the last two steps were the same toggle or bulk selection
    selPrev,                  \* if twice: the selection before the first of the two
    armSel,                   \* selection when killSelected armed the batch
    \* the view functions, applied to a job list that getSlurmJobs() returned
    fetchedJobs,              \* the job list
    shown,                    \* what the function applied last made of it
    \* vscode.window.showInformationMessage
    notifications,            \* per job: the "Job ... has <final state>" messages shown
    \* the webview's script: vscode.postMessage
    posted,                   \* the messages posted, in order, each with the jobs its handler fetched
    \* auto-refresh of the SlurmJobProvider
    configuration,            \* the settings, by section: slurmVSCode.* and slurmJobManager.*
    refreshInterval,          \* this.refreshInterval: <<>> for null, <<id>> for a timer handle
    timers                    \* the interval timers that are active, each with its delay

webVars == <<selectedJobs, highlightRegex, isConfirmingKillAll, isPastJobsExpanded,
             isScheduledJobsExpanded, viewPending, inFlight>>

providerVars == <<jobsToConfirm, filterRegex, lastKnownJobs, notifiedJobs>>

termVars == <<surface, jobs_data, selected_index, selected_jobs, filter_mode, filter_text,
              cursor_pos, entered_regex_with_down>>

obsVars == <<last, jobsSeen, sel0, twice, selPrev, armSel>>

timerVars == <<configuration, refreshInterval, timers>>

viewVars == <<fetchedJobs, shown, notifications, posted, timerVars>>

vars == <<webVars, providerVars, termVars, obsVars, viewVars>>

NoRegex == <<>>

\* no view function was applied yet
NoView == [fn |-> "none", jobs |-> <<>>]

\* op: the handler that ran; id, pat: its arguments; kills: the job ids whose
\* kill it dispatched (scancel, or the "[DEV] Would kill" message); msgs: the
\* messages it showed; env: what the scheduler answered to its fetch ("none":
\* no fetch, "down": tooling unavailable, "empty": no job listed, "listed");
\* changed: a poll whose snapshot differs from the one held before; drew: the
\* step ended with the view drawn anew; draws: how many times the step had
\* the view drawn (draw_menu calls, webview html assignments)
Did(op, id, pat, kills) ==
    [op |-> op, id |-> id, pat |-> pat, kills |-> kills,
     msgs |-> {}, env |-> "none", changed |-> FALSE, drew |-> FALSE, draws |-> 0]

\* vscode.window.show{Information,Warning,Error}Message(text), about job id
Msg(sev, text, id) == [sev |-> sev, text |-> text, id |-> id]

Saying(l, msgs) == [l EXCEPT !.msgs = l.msgs \cup msgs]

(***************************************************************************)
(* SlurmJobProvider                                                        *)
(***************************************************************************)

\* the jobs of lastKnownJobs that left the queue and are to be reported
Vanished(queue) ==
    SelectSeq(lastKnownJobs,
              LAMBDA j : /\ j.jobId \notin Ids(queue)
                         /\ j.jobId \notin notifiedJobs
                         /\ j.status \in {"RUNNING", "PENDING"})

\* mutant of GetSlurmJobs: a failed or empty squeue empties the map of
\* last known jobs
GetSlurmJobsForgetting(e) ==
    IF ~e.avail \/ e.queue = <<>>
    THEN [jobs |-> <<>>, known |-> <<>>, notified |-> notifiedJobs, notes |-> {}]
    ELSE LET gone == Vanished(e.queue)
             done == IF e.sacct = "" THEN <<>>
                     ELSE [i \in 1..Len(gone) |-> [gone[i] EXCEPT !.status = e.sacct]]
         IN  [jobs     |-> e.queue \o done,
              known    |-> e.queue,
              notified |-> notifiedJobs \cup Ids(gone),
              notes    |-> Ids(done)]

\* getSlurmJobs(): the jobs it returns and the provider state it leaves
GetSlurmJobs(e) ==
    IF ~e.avail \/ e.queue = <<>>
    THEN [jobs |-> <<>>, known |-> lastKnownJobs, notified |-> notifiedJobs, notes |-> {}]
    ELSE LET gone == Vanished(e.queue)
             done == IF e.sacct = "" THEN <<>>
                     ELSE [i \in 1..Len(gone) |-> [gone[i] EXCEPT !.status = e.sacct]]
         IN  [jobs     |-> e.queue \o done,
              known    |-> e.queue,
              notified |-> notifiedJobs \cup Ids(gone),
              notes    |-> Ids(done)]

\* what the scheduler tooling can answer to one getSlurmJobs call: squeue's
\* listing, and sacct's answer for the jobs that left the queue (if any did)
EnvOutcomes ==
    {Unavailable} \cup
    UNION {{[avail |-> TRUE, queue |-> q, sacct |-> s] :
                s \in (IF Vanished(q) = <<>> THEN {""} ELSE SacctOut)} :
           q \in AllListings}

Fetched(r) ==
    /\ lastKnownJobs' = r.known
    /\ notifiedJobs' = r.notified

\* what a step that called getSlurmJobs() showed and was answered: one
\* "Job <name> (<id>) has <final state>" message per job reported gone
Heard(l, e) ==
    [l EXCEPT !.msgs = l.msgs \cup {Msg("info", "Job has finished", id) :
                                         id \in GetSlurmJobs(e).notes},
              !.env = IF ~e.avail THEN "down"
                      ELSE IF e.queue = <<>> THEN "empty" ELSE "listed"]

\* mutant of Refresh: the refresh drops the selected ids that are missing
\* from the jobs it fetched
RefreshPruningSelection ==
    \E e \in EnvOutcomes :
        /\ Fetched(GetSlurmJobs(e))
        /\ selectedJobs' = selectedJobs \cap Ids(GetSlurmJobs(e).jobs)
        /\ last' = [Heard(Did("refresh", "", <<>>, {}), e)
                      EXCEPT !.changed = (GetSlurmJobs(e).known # lastKnownJobs)]
        /\ jobsSeen' = <<>>
        /\ sel0' = {}
        /\ twice' = FALSE
        /\ selPrev' = {}
        /\ UNCHANGED viewVars
        /\ UNCHANGED <<highlightRegex, isConfirmingKillAll, isPastJobsExpanded,
                       isScheduledJobsExpanded, viewPending, jobsToConfirm, filterRegex,
                       armSel, termVars, inFlight>>

\* refresh(): the tree view asks getChildren, which fetches the jobs
Refresh ==
    \E e \in EnvOutcomes :
        /\ Fetched(GetSlurmJobs(e))
        /\ last' = [Heard(Did("refresh", "", <<>>, {}), e)
                      EXCEPT !.changed = (GetSlurmJobs(e).known # lastKnownJobs)]
        /\ jobsSeen' = <<>>
        /\ sel0' = {}
        /\ twice' = FALSE
        /\ selPrev' = {}
        /\ UNCHANGED viewVars
        /\ UNCHANGED <<webVars, jobsToConfirm, filterRegex, armSel, termVars>>

\* setFilter(pattern)
SetFilter ==
    \E p \in Patterns :
        LET re == NewRegExp(p, TRUE)
        IN  /\ IF p = <<>> THEN filterRegex' = NoRegex
               ELSE IF re.ok THEN filterRegex' = <<re>>
               ELSE UNCHANGED filterRegex
            /\ last' = Saying(Did("setFilter", "", p, {}),
                               IF p # <<>> /\ ~re.ok
                               THEN {Msg("error", "Invalid regex pattern", "")}
                               ELSE {})
            /\ jobsSeen' = <<>>
            /\ sel0' = {}
            /\ twice' = FALSE
            /\ selPrev' = {}
            /\ UNCHANGED viewVars
            /\ UNCHANGED <<webVars, jobsToConfirm, lastKnownJobs, notifiedJobs, armSel, termVars>>

\* setJobToConfirm / clearJobToConfirm
setJobToConfirm(jobId) == jobsToConfirm' = jobsToConfirm \cup {jobId}

clearJobToConfirm(jobId) == jobsToConfirm' = jobsToConfirm \ {jobId}

(***************************************************************************)
(* Extension commands of the tree view                                     *)
(***************************************************************************)

\* command slurm_job_manager.killJob
KillJobCommand ==
    \E jobId \in JobIds :
        /\ setJobToConfirm(jobId)
        /\ last' = Did("killJob", jobId, <<>>, {})
        /\ jobsSeen' = <<>>
        /\ sel0' = {}
        /\ twice' = FALSE
        /\ selPrev' = {}
        /\ UNCHANGED viewVars
        /\ UNCHANGED <<webVars, filterRegex, lastKnownJobs, notifiedJobs, armSel, termVars>>

\* mutant of ConfirmKillCommand: the pending entry is cleared only when
\* scancel succeeded
ConfirmKillCommandKeepingOnFailure ==
    \E jobId \in JobIds, scancelOk \in BOOLEAN :
        /\ IF scancelOk THEN clearJobToConfirm(jobId) ELSE UNCHANGED jobsToConfirm
        /\ last' = Saying(Did(IF scancelOk THEN "confirmKillCmd" ELSE "confirmKillCmdFailed",
                              jobId, <<>>, {jobId}),
                          IF scancelOk
                          THEN {Msg("info", "Successfully cancelled job", jobId)}
                          ELSE {Msg("error", "Failed to kill job", jobId)})
        /\ jobsSeen' = <<>>
        /\ sel0' = {}
        /\ twice' = FALSE
        /\ selPrev' = {}
        /\ UNCHANGED viewVars
        /\ UNCHANGED <<webVars, filterRegex, lastKnownJobs, notifiedJobs, armSel, termVars>>

\* command slurm_job_manager.confirmKill: scancel runs, and succeeds or fails
ConfirmKillCommand ==
    \E jobId \in JobIds, scancelOk \in BOOLEAN :
        /\ clearJobToConfirm(jobId)
        /\ last' = Saying(Did(IF scancelOk THEN "confirmKillCmd" ELSE "confirmKillCmdFailed",
                              jobId, <<>>, {jobId}),
                          IF scancelOk
                          THEN {Msg("info", "Successfully cancelled job", jobId)}
                          ELSE {Msg("error", "Failed to kill job", jobId)})
        /\ jobsSeen' = <<>>
        /\ sel0' = {}
        /\ twice' = FALSE
        /\ selPrev' = {}
        /\ UNCHANGED viewVars
        /\ UNCHANGED <<webVars, filterRegex, lastKnownJobs, notifiedJobs, armSel, termVars>>

\* command slurm_job_manager.cancelKill
CancelKillCommand ==
    \E jobId \in JobIds :
        /\ clearJobToConfirm(jobId)
        /\ last' = Did("cancelKillCmd", jobId, <<>>, {})
        /\ jobsSeen' = <<>>
        /\ sel0' = {}
        /\ twice' = FALSE
        /\ selPrev' = {}
        /\ UNCHANGED viewVars
        /\ UNCHANGED <<webVars, filterRegex, lastKnownJobs, notifiedJobs, armSel, termVars>>

(***************************************************************************)
(* JobsWebviewProvider                                                     *)
(***************************************************************************)

\* mutant of UpdateView: drawing the view collapses the sections and drops
\* the highlight pattern
UpdateViewResettingState ==
    /\ viewPending
    /\ \E e \in EnvOutcomes :
          /\ Fetched(GetSlurmJobs(e))
          /\ last' = [Heard(Did("updateView", "", <<>>, {}), e) EXCEPT !.drew = TRUE,
                                                                      !.draws = 1]
    /\ viewPending' = FALSE
    /\ highlightRegex' = NoRegex
    /\ isPastJobsExpanded' = FALSE
    /\ isScheduledJobsExpanded' = FALSE
    /\ jobsSeen' = <<>>
    /\ sel0' = {}
    /\ twice' = FALSE
    /\ selPrev' = {}
    /\ UNCHANGED viewVars
    /\ UNCHANGED <<selectedJobs, isConfirmingKillAll, jobsToConfirm, filterRegex, armSel,
                   termVars, inFlight>>

\* updateView(): fetches the jobs and rewrites the webview's html
UpdateView ==
    /\ viewPending
    /\ \E e \in EnvOutcomes :
          /\ Fetched(GetSlurmJobs(e))
          /\ last' = [Heard(Did("updateView", "", <<>>, {}), e) EXCEPT !.drew = TRUE,
                                                                      !.draws = 1]
    /\ viewPending' = FALSE
    /\ jobsSeen' = <<>>
    /\ sel0' = {}
    /\ twice' = FALSE
    /\ selPrev' = {}
    /\ UNCHANGED viewVars
    /\ UNCHANGED <<selectedJobs, highlightRegex, isConfirmingKillAll, isPastJobsExpanded,
                   isScheduledJobsExpanded, jobsToConfirm, filterRegex, armSel, termVars, inFlight>>

\* handleAction(action, jobId) for the actions kill, confirmKill, cancelKill
HandleAction ==
    \E action \in {"kill", "confirmKill", "cancelKill"}, jobId \in JobIds, e \in EnvOutcomes :
        LET r == GetSlurmJobs(e)
        IN  /\ Fetched(r)
            /\ IF jobId \notin Ids(r.jobs)
               THEN /\ last' = Heard(Did(action, jobId, <<>>, {}), e)
                    /\ UNCHANGED <<jobsToConfirm, viewPending>>
               ELSE /\ IF action = "kill" THEN setJobToConfirm(jobId)
                                          ELSE clearJobToConfirm(jobId)
                    /\ last' = Heard(Did(action, jobId, <<>>,
                                         IF action = "confirmKill" THEN {jobId} ELSE {}), e)
                    /\ viewPending' = TRUE
            /\ jobsSeen' = <<>>
            /\ sel0' = {}
            /\ twice' = FALSE
            /\ selPrev' = {}
            /\ UNCHANGED viewVars
            /\ UNCHANGED <<selectedJobs, highlightRegex, isConfirmingKillAll,
                           isPastJobsExpanded, isScheduledJobsExpanded, filterRegex, armSel, termVars, inFlight>>

\* mutant of getVisibleJobs: the Scheduled section counts as always expanded
getVisibleJobsScheduledAlways(jobs) ==
    LET runningJobs   == SelectSeq(jobs, LAMBDA j : j.status = "RUNNING" \/ j.status = "COMPLETING")
        scheduledJobs == SelectSeq(jobs, LAMBDA j : j.status = "PENDING")
        pastJobs      == IF isPastJobsExpanded
                         THEN SelectSeq(jobs, LAMBDA j : j.status \in {"COMPLETED", "FAILED"})
                         ELSE <<>>
    IN  runningJobs \o scheduledJobs \o pastJobs

\* mutant of getVisibleJobs: the Past section counts as expanded only while
\* the Scheduled section is expanded too
getVisibleJobsPastUnderScheduled(jobs) ==
    LET runningJobs   == SelectSeq(jobs, LAMBDA j : j.status = "RUNNING" \/ j.status = "COMPLETING")
        scheduledJobs == IF isScheduledJobsExpanded
                         THEN SelectSeq(jobs, LAMBDA j : j.status = "PENDING")
                         ELSE <<>>
        pastJobs      == IF isPastJobsExpanded /\ isScheduledJobsExpanded
                         THEN SelectSeq(jobs, LAMBDA j : j.status \in {"COMPLETED", "FAILED"})
                         ELSE <<>>
    IN  runningJobs \o scheduledJobs \o pastJobs

getVisibleJobs(jobs) ==
    LET runningJobs   == SelectSeq(jobs, LAMBDA j : j.status = "RUNNING" \/ j.status = "COMPLETING")
        scheduledJobs == IF isScheduledJobsExpanded
                         THEN SelectSeq(jobs, LAMBDA j : j.status = "PENDING")
                         ELSE <<>>
        pastJobs      == IF isPastJobsExpanded
                         THEN SelectSeq(jobs, LAMBDA j : j.status \in {"COMPLETED", "FAILED"})
                         ELSE <<>>
    IN  runningJobs \o scheduledJobs \o pastJobs

\* generateJobsHtml: the job's row gets the class "highlighted"
isHighlighted(job) ==
    /\ highlightRegex # NoRegex
    /\ RegexTest(highlightRegex[1], job.name)

\* mutant of BulkToggle: the matching jobs are only ever added
BulkToggleAddOnly(matchingJobs, selection) == selection \cup Ids(matchingJobs)

\* mutant of BulkToggle: every matching job is toggled on its own
BulkToggleEachJob(matchingJobs, selection) ==
    (selection \ Ids(matchingJobs)) \cup (Ids(matchingJobs) \ selection)

\* the selection after the regexEnter handler's all-or-nothing step
BulkToggle(matchingJobs, selection) ==
    IF \A i \in 1..Len(matchingJobs) : matchingJobs[i].jobId \in selection
    THEN selection \ Ids(matchingJobs)
    ELSE selection \cup Ids(matchingJobs)

\* mutant of RegexEnter: the selection is cleared before the pattern is
\* compiled, so an invalid pattern loses it
RegexEnterClearingFirst ==
    \E p \in Patterns :
        LET regex == NewRegExp(p, TRUE)
        IN  /\ IF p = <<>>
               THEN /\ highlightRegex' = NoRegex
                    /\ viewPending' = TRUE
                    /\ last' = Did("regexEnter", "", p, {})
                    /\ UNCHANGED <<selectedJobs, lastKnownJobs, notifiedJobs>>
               ELSE IF ~regex.ok
               THEN /\ selectedJobs' = {}
                    /\ last' = Did("regexEnter", "", p, {})
                    /\ UNCHANGED <<highlightRegex, viewPending, lastKnownJobs, notifiedJobs>>
               ELSE \E e \in EnvOutcomes :
                    LET r == GetSlurmJobs(e)
                        matchingJobs == SelectSeq(getVisibleJobs(r.jobs),
                                                  LAMBDA j : RegexTest(regex, j.name))
                    IN  /\ Fetched(r)
                        /\ last' = Heard(Did("regexEnter", "", p, {}), e)
                        /\ selectedJobs' = BulkToggle(matchingJobs, {})
                        /\ highlightRegex' = NoRegex
                        /\ viewPending' = TRUE
            /\ jobsSeen' = <<>>
            /\ sel0' = selectedJobs
            /\ twice' = FALSE
            /\ selPrev' = {}
            /\ UNCHANGED viewVars
            /\ UNCHANGED <<isConfirmingKillAll, isPastJobsExpanded, isScheduledJobsExpanded,
                           jobsToConfirm, filterRegex, armSel, termVars, inFlight>>

\* message regexEnter
RegexEnter ==
    \E p \in Patterns :
        LET regex == NewRegExp(p, TRUE)
        IN  /\ IF p = <<>>
               THEN /\ highlightRegex' = NoRegex
                    /\ viewPending' = TRUE
                    /\ last' = Did("regexEnter", "", p, {})
                    /\ jobsSeen' = <<>>
                    /\ sel0' = selectedJobs
                    /\ twice' = FALSE
                    /\ selPrev' = {}
                    /\ UNCHANGED viewVars
                    /\ UNCHANGED <<selectedJobs, lastKnownJobs, notifiedJobs>>
               ELSE IF ~regex.ok
               THEN /\ last' = Did("regexEnter", "", p, {})
                    /\ jobsSeen' = <<>>
                    /\ sel0' = selectedJobs
                    /\ twice' = FALSE
                    /\ selPrev' = {}
                    /\ UNCHANGED viewVars
                    /\ UNCHANGED <<selectedJobs, highlightRegex, viewPending,
                                   lastKnownJobs, notifiedJobs>>
               ELSE \E e \in EnvOutcomes :
                    LET r == GetSlurmJobs(e)
                        matchingJobs == SelectSeq(getVisibleJobs(r.jobs),
                                                  LAMBDA j : RegexTest(regex, j.name))
                    IN  /\ Fetched(r)
                        /\ last' = Heard(Did("regexEnter", "", p, {}), e)
                        /\ selectedJobs' = BulkToggle(matchingJobs, selectedJobs)
                        /\ highlightRegex' = NoRegex
                        /\ viewPending' = TRUE
                        /\ jobsSeen' = r.jobs
                        /\ sel0' = selectedJobs
                        /\ twice' = (last.op = "regexEnter" /\ last.pat = p /\ jobsSeen = r.jobs)
                        /\ selPrev' = IF twice' THEN sel0 ELSE {}
                        /\ UNCHANGED viewVars
            /\ UNCHANGED <<isConfirmingKillAll, isPastJobsExpanded, isScheduledJobsExpanded,
                           jobsToConfirm, filterRegex, armSel, termVars, inFlight>>

\* mutant of RegexChange: the handler also empties the selection
RegexChangeClearingSelection ==
    \E p \in Patterns :
        LET re == NewRegExp(p, TRUE)
        IN  /\ IF p = <<>>
               THEN highlightRegex' = NoRegex /\ viewPending' = TRUE
               ELSE IF re.ok
               THEN highlightRegex' = <<re>> /\ viewPending' = TRUE
               ELSE UNCHANGED <<highlightRegex, viewPending>>
            /\ last' = Did("regexChange", "", p, {})
            /\ jobsSeen' = <<>>
            /\ sel0' = {}
            /\ twice' = FALSE
            /\ selPrev' = {}
            /\ UNCHANGED viewVars
            /\ selectedJobs' = {}
            /\ UNCHANGED <<isConfirmingKillAll, isPastJobsExpanded,
                           isScheduledJobsExpanded, providerVars, armSel, termVars, inFlight>>

\* message regexChange
RegexChange ==
    \E p \in Patterns :
        LET re == NewRegExp(p, TRUE)
        IN  /\ IF p = <<>>
               THEN highlightRegex' = NoRegex /\ viewPending' = TRUE
               ELSE IF re.ok
               THEN highlightRegex' = <<re>> /\ viewPending' = TRUE
               ELSE UNCHANGED <<highlightRegex, viewPending>>
            /\ last' = Did("regexChange", "", p, {})
            /\ jobsSeen' = <<>>
            /\ sel0' = {}
            /\ twice' = FALSE
            /\ selPrev' = {}
            /\ UNCHANGED viewVars
            /\ UNCHANGED <<selectedJobs, isConfirmingKillAll, isPastJobsExpanded,
                           isScheduledJobsExpanded, providerVars, armSel, termVars, inFlight>>

\* the selection after the toggleSelection handler
Toggled(selection, jobId, forceSelect) ==
    IF forceSelect THEN selection \cup {jobId}
    ELSE IF jobId \in selection THEN selection \ {jobId}
    ELSE selection \cup {jobId}

\* message toggleSelection
ToggleSelection ==
    \E jobId \in JobIds, forceSelect \in BOOLEAN :
        /\ selectedJobs' = Toggled(selectedJobs, jobId, forceSelect)
        /\ viewPending' = TRUE
        /\ last' = Did(IF forceSelect THEN "forceSelect" ELSE "toggleSelection",
                       jobId, <<>>, {})
        /\ jobsSeen' = <<>>
        /\ sel0' = IF forceSelect THEN {} ELSE selectedJobs
        /\ twice' = (~forceSelect /\ last.op = "toggleSelection" /\ last.id = jobId)
        /\ selPrev' = IF twice' THEN sel0 ELSE {}
        /\ UNCHANGED viewVars
        /\ UNCHANGED <<highlightRegex, isConfirmingKillAll, isPastJobsExpanded,
                       isScheduledJobsExpanded, providerVars, armSel, termVars, inFlight>>

\* message selectAll and the selectAll command
SelectAll ==
    \E forceSelect \in BOOLEAN, e \in EnvOutcomes :
        LET r == GetSlurmJobs(e)
        IN  /\ Fetched(r)
            /\ selectedJobs' = IF forceSelect
                               THEN selectedJobs \cup Ids(getVisibleJobs(r.jobs))
                               ELSE {}
            /\ viewPending' = TRUE
            /\ last' = Heard(Did(IF forceSelect THEN "selectAll" ELSE "deselectAll",
                                 "", <<>>, {}), e)
            /\ jobsSeen' = IF forceSelect THEN r.jobs ELSE <<>>
            /\ sel0' = IF forceSelect THEN selectedJobs ELSE {}
            /\ twice' = FALSE
            /\ selPrev' = {}
            /\ UNCHANGED viewVars
            /\ UNCHANGED <<highlightRegex, isConfirmingKillAll, isPastJobsExpanded,
                           isScheduledJobsExpanded, jobsToConfirm, filterRegex, armSel, termVars, inFlight>>

\* message clearSelection and the clearSelection command
ClearSelection ==
    /\ selectedJobs' = {}
    /\ viewPending' = TRUE
    /\ last' = Did("clearSelection", "", <<>>, {})
    /\ jobsSeen' = <<>>
    /\ sel0' = {}
    /\ twice' = FALSE
    /\ selPrev' = {}
    /\ UNCHANGED viewVars
    /\ UNCHANGED <<highlightRegex, isConfirmingKillAll, isPastJobsExpanded,
                   isScheduledJobsExpanded, providerVars, armSel, termVars, inFlight>>

\* mutant of KillSelected: the batch is armed whatever the selection holds
KillSelectedArmingAlways ==
    /\ isConfirmingKillAll' = TRUE
    /\ viewPending' = TRUE
    /\ armSel' = selectedJobs
    /\ last' = Did("killSelected", "", <<>>, {})
    /\ jobsSeen' = <<>>
    /\ sel0' = {}
    /\ twice' = FALSE
    /\ selPrev' = {}
    /\ UNCHANGED viewVars
    /\ UNCHANGED <<selectedJobs, highlightRegex, isPastJobsExpanded,
                   isScheduledJobsExpanded, providerVars, termVars, inFlight>>

\* message killSelected
KillSelected ==
    /\ IF selectedJobs = {}
       THEN UNCHANGED <<isConfirmingKillAll, viewPending, armSel>>
       ELSE /\ isConfirmingKillAll' = TRUE
            /\ viewPending' = TRUE
            /\ armSel' = selectedJobs
    /\ last' = Saying(Did("killSelected", "", <<>>, {}),
                      IF selectedJobs = {}
                      THEN {Msg("warning", "No jobs selected", "")}
                      ELSE {})
    /\ jobsSeen' = <<>>
    /\ sel0' = {}
    /\ twice' = FALSE
    /\ selPrev' = {}
    /\ UNCHANGED viewVars
    /\ UNCHANGED <<selectedJobs, highlightRegex, isPastJobsExpanded,
                   isScheduledJobsExpanded, providerVars, termVars, inFlight>>

\* message confirmKillAll
ConfirmKillAll ==
    /\ IF selectedJobs = {}
       THEN /\ last' = Saying(Did("confirmKillAll", "", <<>>, {}),
                              {Msg("warning", "No jobs selected", "")})
            /\ UNCHANGED <<selectedJobs, isConfirmingKillAll, viewPending>>
       ELSE /\ last' = Saying(Did("confirmKillAll", "", <<>>, selectedJobs),
                              {Msg("info", "[DEV] Would kill jobs", "")})
            /\ selectedJobs' = {}
            /\ isConfirmingKillAll' = FALSE
            /\ viewPending' = TRUE
    /\ jobsSeen' = <<>>
    /\ sel0' = {}
    /\ twice' = FALSE
    /\ selPrev' = {}
    /\ UNCHANGED viewVars
    /\ UNCHANGED <<highlightRegex, isPastJobsExpanded, isScheduledJobsExpanded,
                   providerVars, armSel, termVars, inFlight>>

\* message cancelKillAll
CancelKillAll ==
    /\ isConfirmingKillAll' = FALSE
    /\ viewPending' = TRUE
    /\ last' = Did("cancelKillAll", "", <<>>, {})
    /\ jobsSeen' = <<>>
    /\ sel0' = {}
    /\ twice' = FALSE
    /\ selPrev' = {}
    /\ UNCHANGED viewVars
    /\ UNCHANGED <<selectedJobs, highlightRegex, isPastJobsExpanded,
                   isScheduledJobsExpanded, providerVars, armSel, termVars, inFlight>>

\* message togglePastJobs
TogglePastJobs ==
    /\ isPastJobsExpanded' = ~isPastJobsExpanded
    /\ viewPending' = TRUE
    /\ last' = Did("togglePastJobs", "", <<>>, {})
    /\ jobsSeen' = <<>>
    /\ sel0' = {}
    /\ twice' = FALSE
    /\ selPrev' = {}
    /\ UNCHANGED viewVars
    /\ UNCHANGED <<selectedJobs, highlightRegex, isConfirmingKillAll,
                   isScheduledJobsExpanded, providerVars, armSel, termVars, inFlight>>

\* message toggleScheduledJobs
ToggleScheduledJobs ==
    /\ isScheduledJobsExpanded' = ~isScheduledJobsExpanded
    /\ viewPending' = TRUE
    /\ last' = Did("toggleScheduledJobs", "", <<>>, {})
    /\ jobsSeen' = <<>>
    /\ sel0' = {}
    /\ twice' = FALSE
    /\ selPrev' = {}
    /\ UNCHANGED viewVars
    /\ UNCHANGED <<selectedJobs, highlightRegex, isConfirmingKillAll,
                   isPastJobsExpanded, providerVars, armSel, termVars, inFlight>>

(***************************************************************************)
(* The webview's handlers, await by await: Receive runs a handler up to    *)
(* its first "await getSlurmJobs()", Resume completes one awaited call and *)
(* runs what follows it. A call ingests its answer in one step when it     *)
(* completes.                                                              *)
(***************************************************************************)

\* what resumes when an awaited getSlurmJobs() completes
Task(type, arg, id, pat) == [type |-> type, arg |-> arg, id |-> id, pat |-> pat]

\* updateView() awaiting the jobs at line 306
UpdateViewTask == Task("updateView", "", "", <<>>)

\* the messages of the webview that Receive accepts
Messages ==
    {Task("toggleSelection", "", id, <<>>) : id \in JobIds}
    \cup {Task("togglePastJobs", "", "", <<>>)}
    \cup {Task("selectAll", "force", "", <<>>)}
    \cup {Task("regexEnter", "", "", <<"^", "t">>)}
    \cup {Task("action", a, id, <<>>) : a \in {"kill", "cancelKill"}, id \in JobIds}

\* onDidReceiveMessage: toggleSelection and togglePastJobs write their state
\* and call updateView(); selectAll, regexEnter and action await the jobs first
Receive ==
    /\ Len(inFlight) < MaxInFlight
    /\ \E msg \in Messages :
          /\ selectedJobs' = IF msg.type = "toggleSelection"
                             THEN Toggled(selectedJobs, msg.id, FALSE)
                             ELSE selectedJobs
          /\ isPastJobsExpanded' = IF msg.type = "togglePastJobs"
                                   THEN ~isPastJobsExpanded
                                   ELSE isPastJobsExpanded
          /\ inFlight' = Append(inFlight,
                                IF msg.type \in {"toggleSelection", "togglePastJobs"}
                                THEN UpdateViewTask
                                ELSE msg)
          /\ last' = Did("received", msg.id, msg.pat, {})
    /\ viewPending' = (\E i \in 1..Len(inFlight') : inFlight'[i] = UpdateViewTask)
    /\ jobsSeen' = <<>>
    /\ sel0' = {}
    /\ twice' = FALSE
    /\ selPrev' = {}
    /\ UNCHANGED viewVars
    /\ UNCHANGED <<highlightRegex, isConfirmingKillAll, isScheduledJobsExpanded,
                   providerVars, armSel, termVars>>

\* an awaited getSlurmJobs() completes and its caller runs on: updateView
\* writes the html; selectAll, regexEnter and handleAction do their work and
\* call updateView(), which starts the next fetch
Resume ==
    /\ \E i \in 1..Len(inFlight), e \in EnvOutcomes :
          LET t    == inFlight[i]
              r    == GetSlurmJobs(e)
              rest == SubSeq(inFlight, 1, i - 1) \o SubSeq(inFlight, i + 1, Len(inFlight))
              matchingJobs == SelectSeq(getVisibleJobs(r.jobs),
                                        LAMBDA j : RegexTest(NewRegExp(t.pat, TRUE), j.name))
              found == t.id \in Ids(r.jobs)
          IN  /\ Fetched(r)
              /\ selectedJobs' =
                    IF t.type = "selectAll"
                    THEN selectedJobs \cup Ids(getVisibleJobs(r.jobs))
                    ELSE IF t.type = "regexEnter"
                    THEN BulkToggle(matchingJobs, selectedJobs)
                    ELSE selectedJobs
              /\ highlightRegex' = IF t.type = "regexEnter" THEN NoRegex ELSE highlightRegex
              /\ jobsToConfirm' =
                    IF t.type = "action" /\ found
                    THEN IF t.arg = "kill" THEN jobsToConfirm \cup {t.id}
                                           ELSE jobsToConfirm \ {t.id}
                    ELSE jobsToConfirm
              /\ inFlight' = IF t.type = "updateView" \/ (t.type = "action" /\ ~found)
                             THEN rest
                             ELSE Append(rest, UpdateViewTask)
              /\ last' = [Heard(Did("resumed", t.id, t.pat, {}), e)
                            EXCEPT !.drew = (t.type = "updateView"),
                                   !.draws = IF t.type = "updateView" THEN 1 ELSE 0]
    /\ viewPending' = (\E i \in 1..Len(inFlight') : inFlight'[i] = UpdateViewTask)
    /\ jobsSeen' = <<>>
    /\ sel0' = {}
    /\ twice' = FALSE
    /\ selPrev' = {}
    /\ UNCHANGED viewVars
    /\ UNCHANGED <<isConfirmingKillAll, isPastJobsExpanded, isScheduledJobsExpanded,
                   filterRegex, armSel, termVars>>

(***************************************************************************)
(* slurm_manager.sh: the terminal UI                                       *)
(***************************************************************************)

\* the characters of an array element (the ids of the universe are one
\* character long; "" is the empty string)
IdChars(id) == IF id = "" THEN <<>> ELSE <<id>>

\* "${selected_jobs[*]}": the elements joined by single spaces
RECURSIVE Joined(_)
Joined(ids) ==
    IF ids = <<>> THEN <<>>
    ELSE IF Len(ids) = 1 THEN IdChars(ids[1])
    ELSE IdChars(Head(ids)) \o <<" ">> \o Joined(Tail(ids))

\* text contains pat as a substring
Contains(text, pat) ==
    \E s \in 0..(Len(text) - Len(pat)) : \A k \in 1..Len(pat) : text[s + k] = pat[k]

\* [[ " ${selected_jobs[@]} " =~ " ${jobid} " ]]
InSelection(sel, jobid) ==
    Contains(<<" ">> \o Joined(sel) \o <<" ">>, <<" ">> \o IdChars(jobid) \o <<" ">>)

\* toggle_selection: the array it leaves
toggle_selection(sel, jobid) ==
    IF InSelection(sel, jobid)
    THEN SelectSeq(sel, LAMBDA j : j # jobid /\ j # "")
    ELSE Append(sel, jobid)

\* select_all: the array it leaves
select_all(jobs) == [i \in 1..Len(jobs) |-> jobs[i].jobId]

\* are_all_jobs_selected: the unpadded "${selected_jobs[*]}" is searched for " id "
are_all_jobs_selected(sel, jobs) ==
    Cardinality({i \in 1..Len(jobs) : Contains(Joined(sel), <<" ", jobs[i].jobId, " ">>)})
        = Len(jobs)

\* the jobid read from "${jobs_data[$selected_index]}": index -1 is the last
\* row, an index past the end expands to the empty string
JobIdAt(jobs, idx) ==
    IF jobs = <<>> THEN ""
    ELSE IF idx = -1 THEN jobs[Len(jobs)].jobId
    ELSE IF idx < Len(jobs) THEN jobs[idx + 1].jobId
    ELSE ""

\* a row of jobs_data: the fields of a job joined by "|"
Row(job) == <<job.jobId, "|">> \o job.name \o <<"|", job.status>>

\* "${jobs_data[*]}": the rows joined by single spaces
RECURSIVE JoinRows(_)
JoinRows(rows) ==
    IF rows = <<>> THEN <<>>
    ELSE IF Len(rows) = 1 THEN Row(rows[1])
    ELSE Row(Head(rows)) \o <<" ">> \o JoinRows(Tail(rows))

\* mutant of get_jobs: the rows are compared by their number only
get_jobsByCount(listing) ==
    IF Len(listing) # Len(jobs_data)
    THEN [rows |-> listing, changed |-> TRUE]
    ELSE [rows |-> jobs_data, changed |-> FALSE]

\* get_jobs: the rows held after squeue printed listing, and whether it
\* returned 0 ("jobs changed")
get_jobs(listing) ==
    IF Len(listing) # Len(jobs_data) \/ JoinRows(listing) # JoinRows(jobs_data)
    THEN [rows |-> listing, changed |-> TRUE]
    ELSE [rows |-> jobs_data, changed |-> FALSE]

\* a key was read: the handler ran and sets redraw_needed, so that the loop
\* draws the menu at its next turn
Key(op, id, pat, kills) == [Did(op, id, pat, kills) EXCEPT !.drew = TRUE, !.draws = 1]

\* the handler of the key called draw_menu itself, n times
DrawMenu(l, n) == [l EXCEPT !.draws = l.draws + n]

\* main loop, every 3 seconds: get_jobs, and draw_menu if the rows changed
TermPoll ==
    \E q \in AllListings :
        /\ jobs_data' = get_jobs(q).rows
        /\ last' = [Did("poll", "", <<>>, {}) EXCEPT !.changed = get_jobs(q).changed,
                                                    !.drew = get_jobs(q).changed,
                                                    !.draws = IF get_jobs(q).changed
                                                              THEN 1 ELSE 0]
        /\ jobsSeen' = q
        /\ sel0' = {}
        /\ twice' = FALSE
        /\ selPrev' = {}
        /\ UNCHANGED viewVars
        /\ UNCHANGED <<webVars, providerVars, armSel, surface, selected_index, selected_jobs,
                       filter_mode, filter_text, cursor_pos, entered_regex_with_down>>

\* normal mode, Up arrow
KeyUp ==
    /\ filter_mode = 0
    /\ selected_index' = IF selected_index > -1 THEN selected_index - 1 ELSE selected_index
    /\ last' = DrawMenu(Key("keyUp", "", <<>>, {}), IF selected_index > -1 THEN 1 ELSE 0)
    /\ jobsSeen' = <<>>
    /\ sel0' = {}
    /\ twice' = FALSE
    /\ selPrev' = {}
    /\ UNCHANGED viewVars
    /\ UNCHANGED <<webVars, providerVars, armSel, surface, jobs_data, selected_jobs,
                   filter_mode, filter_text, cursor_pos, entered_regex_with_down>>

\* normal mode, Down arrow: past the last row it enters filter mode
KeyDown ==
    /\ filter_mode = 0
    /\ IF selected_index < Len(jobs_data) - 1
       THEN /\ selected_index' = selected_index + 1
            /\ UNCHANGED <<filter_mode, entered_regex_with_down>>
       ELSE /\ filter_mode' = 1
            /\ entered_regex_with_down' = 1
            /\ selected_index' = Len(jobs_data)
    /\ last' = DrawMenu(Key("keyDown", "", <<>>, {}), 1)
    /\ jobsSeen' = <<>>
    /\ sel0' = {}
    /\ twice' = FALSE
    /\ selPrev' = {}
    /\ UNCHANGED viewVars
    /\ UNCHANGED <<webVars, providerVars, armSel, surface, jobs_data, selected_jobs,
                   filter_text, cursor_pos>>

\* normal mode, Enter: toggle all on the header row, else toggle the row's job
KeyEnter ==
    /\ filter_mode = 0
    /\ IF selected_index = -1
       THEN /\ selected_jobs' = IF are_all_jobs_selected(selected_jobs, jobs_data)
                                THEN <<>>
                                ELSE select_all(jobs_data)
            /\ last' = DrawMenu(Key("toggleAll", "", <<>>, {}), 1)
            /\ jobsSeen' = jobs_data
       ELSE IF Len(jobs_data) > 0
       THEN /\ selected_jobs' = toggle_selection(selected_jobs,
                                                 JobIdAt(jobs_data, selected_index))
            /\ last' = DrawMenu(Key("toggle", JobIdAt(jobs_data, selected_index), <<>>, {}), 1)
            /\ jobsSeen' = <<>>
       ELSE /\ last' = DrawMenu(Key("enter", "", <<>>, {}), 1)
            /\ jobsSeen' = <<>>
            /\ UNCHANGED selected_jobs
    /\ sel0' = {selected_jobs[i] : i \in 1..Len(selected_jobs)}
    /\ twice' = (last'.op = "toggle" /\ last.op = "toggle" /\ last.id = last'.id)
    /\ selPrev' = IF twice' THEN sel0 ELSE {}
    /\ UNCHANGED viewVars
    /\ UNCHANGED <<webVars, providerVars, armSel, surface, jobs_data, selected_index,
                   filter_mode, filter_text, cursor_pos, entered_regex_with_down>>

\* key 1 as it would be if a declined batch confirmation dropped the selection
Key1ClearingOnDecline ==
    /\ filter_mode = 0
    /\ IF Len(selected_jobs) > 0
       THEN \E answer \in {"y", "n"} :
               IF answer = "y"
               THEN /\ last' = DrawMenu(Key("cancelSelected", "", <<>>,
                                            {selected_jobs[i] : i \in 1..Len(selected_jobs)}),
                                        Len(selected_jobs))
                    /\ \E q \in AllListings : jobs_data' = get_jobs(q).rows
                    /\ selected_jobs' = <<>>
               ELSE /\ last' = DrawMenu(Key("cancelSelectedNo", "", <<>>, {}), 1)
                    /\ selected_jobs' = <<>>
                    /\ UNCHANGED jobs_data
       ELSE IF Len(jobs_data) > 0
       THEN \E answer \in {"y", "n"} :
               IF answer = "y"
               THEN /\ last' = DrawMenu(Key("cancelJob", JobIdAt(jobs_data, selected_index),
                                            <<>>, {JobIdAt(jobs_data, selected_index)}), 1)
                    /\ \E q \in AllListings : jobs_data' = get_jobs(q).rows
                    /\ UNCHANGED selected_jobs
               ELSE /\ last' = DrawMenu(Key("cancelJobNo", JobIdAt(jobs_data, selected_index),
                                            <<>>, {}), 1)
                    /\ UNCHANGED <<jobs_data, selected_jobs>>
       ELSE /\ last' = Key("key1", "", <<>>, {})
            /\ UNCHANGED <<jobs_data, selected_jobs>>
    /\ jobsSeen' = <<>>
    /\ sel0' = {}
    /\ twice' = FALSE
    /\ selPrev' = {}
    /\ UNCHANGED viewVars
    /\ UNCHANGED <<webVars, providerVars, armSel, surface, selected_index,
                   filter_mode, filter_text, cursor_pos, entered_regex_with_down>>

\* normal mode, key 1: cancel the selected jobs, or the job under the cursor,
\* after confirm_action; every run_command ends with get_jobs
Key1 ==
    /\ filter_mode = 0
    /\ IF Len(selected_jobs) > 0
       THEN \E answer \in {"y", "n"} :
               IF answer = "y"
               THEN /\ last' = DrawMenu(Key("cancelSelected", "", <<>>,
                                            {selected_jobs[i] : i \in 1..Len(selected_jobs)}),
                                        Len(selected_jobs))
                    /\ \E q \in AllListings : jobs_data' = get_jobs(q).rows
                    /\ selected_jobs' = <<>>
               ELSE /\ last' = DrawMenu(Key("cancelSelectedNo", "", <<>>, {}), 1)
                    /\ UNCHANGED <<jobs_data, selected_jobs>>
       ELSE IF Len(jobs_data) > 0
       THEN \E answer \in {"y", "n"} :
               IF answer = "y"
               THEN /\ last' = DrawMenu(Key("cancelJob", JobIdAt(jobs_data, selected_index),
                                            <<>>, {JobIdAt(jobs_data, selected_index)}), 1)
                    /\ \E q \in AllListings : jobs_data' = get_jobs(q).rows
                    /\ UNCHANGED selected_jobs
               ELSE /\ last' = DrawMenu(Key("cancelJobNo", JobIdAt(jobs_data, selected_index),
                                            <<>>, {}), 1)
                    /\ UNCHANGED <<jobs_data, selected_jobs>>
       ELSE /\ last' = Key("key1", "", <<>>, {})
            /\ UNCHANGED <<jobs_data, selected_jobs>>
    /\ jobsSeen' = <<>>
    /\ sel0' = {}
    /\ twice' = FALSE
    /\ selPrev' = {}
    /\ UNCHANGED viewVars
    /\ UNCHANGED <<webVars, providerVars, armSel, surface, selected_index,
                   filter_mode, filter_text, cursor_pos, entered_regex_with_down>>

\* normal mode, keys 2 (ssh), 3 (sattach), 4 (scontrol show job): run_command,
\* which ends with get_jobs; ssh runs only when the job has a node
KeyCommand ==
    /\ filter_mode = 0
    /\ \E key \in {"2", "3", "4"}, hasNode \in BOOLEAN :
          IF /\ Len(selected_jobs) = 0
             /\ Len(jobs_data) > 0
             /\ (key = "2" => hasNode)
          THEN /\ \E q \in AllListings : jobs_data' = get_jobs(q).rows
               /\ last' = DrawMenu(Key("command", "", <<>>, {}), 1)
          ELSE /\ UNCHANGED jobs_data
               /\ last' = Key("command", "", <<>>, {})
    /\ jobsSeen' = <<>>
    /\ sel0' = {}
    /\ twice' = FALSE
    /\ selPrev' = {}
    /\ UNCHANGED viewVars
    /\ UNCHANGED <<webVars, providerVars, armSel, surface, selected_index, selected_jobs,
                   filter_mode, filter_text, cursor_pos, entered_regex_with_down>>

\* normal mode, "/": enter filter mode
KeySlash ==
    /\ filter_mode = 0
    /\ filter_mode' = 1
    /\ entered_regex_with_down' = 0
    /\ selected_index' = 0
    /\ last' = DrawMenu(Key("slash", "", <<>>, {}), 1)
    /\ jobsSeen' = <<>>
    /\ sel0' = {}
    /\ twice' = FALSE
    /\ selPrev' = {}
    /\ UNCHANGED viewVars
    /\ UNCHANGED <<webVars, providerVars, armSel, surface, jobs_data, selected_jobs,
                   filter_text, cursor_pos>>

\* filter mode, Escape, Ctrl+C or Ctrl+W: leave filter mode, clearing the text
\* (the flag is reset before it is read); Escape and Ctrl+C draw the menu and
\* "continue" past redraw_needed=1
FilterEscape ==
    /\ filter_mode = 1
    /\ filter_mode' = 0
    /\ entered_regex_with_down' = 0
    /\ filter_text' = <<>>
    /\ cursor_pos' = 0
    /\ selected_index' = IF entered_regex_with_down' = 1 THEN Len(jobs_data) - 1 ELSE 0
    /\ \E key \in {"escape", "ctrl-c", "ctrl-w"} :
          last' = IF key = "ctrl-w"
                  THEN DrawMenu(Key("filterEscape", "", <<>>, {}), 1)
                  ELSE [Did("filterEscape", "", <<>>, {}) EXCEPT !.drew = TRUE, !.draws = 1]
    /\ jobsSeen' = <<>>
    /\ sel0' = {}
    /\ twice' = FALSE
    /\ selPrev' = {}
    /\ UNCHANGED viewVars
    /\ UNCHANGED <<webVars, providerVars, armSel, surface, jobs_data, selected_jobs>>

\* filter mode, Left and Right arrows
FilterArrow ==
    /\ filter_mode = 1
    /\ \E key \in {"[D", "[C"} :
          /\ cursor_pos' = IF key = "[D" /\ cursor_pos > 0 THEN cursor_pos - 1
                           ELSE IF key = "[C" /\ cursor_pos < Len(filter_text)
                           THEN cursor_pos + 1
                           ELSE cursor_pos
          /\ last' = DrawMenu(Key("filterArrow", "", <<>>, {}), IF cursor_pos' # cursor_pos THEN 1 ELSE 0)
    /\ jobsSeen' = <<>>
    /\ sel0' = {}
    /\ twice' = FALSE
    /\ selPrev' = {}
    /\ UNCHANGED viewVars
    /\ UNCHANGED <<webVars, providerVars, armSel, surface, jobs_data, selected_index,
                   selected_jobs, filter_mode, filter_text, entered_regex_with_down>>

\* filter mode, Up arrow: back to the last row if the mode was entered with Down
FilterUp ==
    /\ filter_mode = 1
    /\ IF entered_regex_with_down = 1
       THEN /\ filter_mode' = 0
            /\ entered_regex_with_down' = 0
            /\ filter_text' = <<>>
            /\ cursor_pos' = 0
            /\ selected_index' = Len(jobs_data) - 1
       ELSE UNCHANGED <<filter_mode, entered_regex_with_down, filter_text, cursor_pos,
                        selected_index>>
    /\ last' = DrawMenu(Key("filterUp", "", <<>>, {}), IF entered_regex_with_down = 1 THEN 1 ELSE 0)
    /\ jobsSeen' = <<>>
    /\ sel0' = {}
    /\ twice' = FALSE
    /\ selPrev' = {}
    /\ UNCHANGED viewVars
    /\ UNCHANGED <<webVars, providerVars, armSel, surface, jobs_data, selected_jobs>>

\* filter mode, Delete and Backspace
FilterDelete ==
    /\ filter_mode = 1
    /\ \E key \in {"delete", "backspace"} :
          /\ IF key = "delete" /\ cursor_pos < Len(filter_text)
             THEN /\ filter_text' = SubSeq(filter_text, 1, cursor_pos)
                                      \o SubSeq(filter_text, cursor_pos + 2, Len(filter_text))
                  /\ UNCHANGED cursor_pos
             ELSE IF key = "backspace" /\ cursor_pos > 0
             THEN /\ filter_text' = SubSeq(filter_text, 1, cursor_pos - 1)
                                      \o SubSeq(filter_text, cursor_pos + 1, Len(filter_text))
                  /\ cursor_pos' = cursor_pos - 1
             ELSE UNCHANGED <<filter_text, cursor_pos>>
          /\ last' = DrawMenu(Key("filterDelete", "", <<>>, {}), IF filter_text' # filter_text THEN 1 ELSE 0)
    /\ jobsSeen' = <<>>
    /\ sel0' = {}
    /\ twice' = FALSE
    /\ selPrev' = {}
    /\ UNCHANGED viewVars
    /\ UNCHANGED <<webVars, providerVars, armSel, surface, jobs_data, selected_index,
                   selected_jobs, filter_mode, entered_regex_with_down>>

\* filter mode, a printable key: insert it at the cursor
FilterType ==
    /\ filter_mode = 1
    /\ Len(filter_text) < MaxLen
    /\ \E key \in FilterKeys :
          filter_text' = SubSeq(filter_text, 1, cursor_pos) \o <<key>>
                           \o SubSeq(filter_text, cursor_pos + 1, Len(filter_text))
    /\ cursor_pos' = cursor_pos + 1
    /\ last' = DrawMenu(Key("filterType", "", <<>>, {}), 1)
    /\ jobsSeen' = <<>>
    /\ sel0' = {}
    /\ twice' = FALSE
    /\ selPrev' = {}
    /\ UNCHANGED viewVars
    /\ UNCHANGED <<webVars, providerVars, armSel, surface, jobs_data, selected_index,
                   selected_jobs, filter_mode, entered_regex_with_down>>

\* mutant of AddMatching: a matching job is appended whether or not it is
\* already selected
RECURSIVE AddMatchingAgain(_, _, _)
AddMatchingAgain(sel, jobs, re) ==
    IF jobs = <<>> THEN sel
    ELSE AddMatchingAgain(IF RegexTest(re, Head(jobs).name)
                          THEN Append(sel, Head(jobs).jobId)
                          ELSE sel,
                          Tail(jobs), re)

\* the filter-mode Enter loop: every job whose name matches is appended
\* unless it is already selected
RECURSIVE AddMatching(_, _, _)
AddMatching(sel, jobs, re) ==
    IF jobs = <<>> THEN sel
    ELSE AddMatching(IF RegexTest(re, Head(jobs).name) /\ ~InSelection(sel, Head(jobs).jobId)
                     THEN Append(sel, Head(jobs).jobId)
                     ELSE sel,
                     Tail(jobs), re)

\* filter mode, Enter: add the matching jobs to the selection, leave filter mode
FilterEnter ==
    /\ filter_mode = 1
    /\ selected_jobs' = IF filter_text # <<>>
                        THEN AddMatching(selected_jobs, jobs_data, NewRegExp(filter_text, FALSE))
                        ELSE selected_jobs
    /\ entered_regex_with_down' = 0
    /\ filter_mode' = 0
    /\ filter_text' = <<>>
    /\ cursor_pos' = 0
    /\ selected_index' = 0
    /\ last' = DrawMenu(Key("filterEnter", "", filter_text, {}), 1)
    /\ jobsSeen' = jobs_data
    /\ sel0' = {selected_jobs[i] : i \in 1..Len(selected_jobs)}
    /\ twice' = FALSE
    /\ selPrev' = {}
    /\ UNCHANGED viewVars
    /\ UNCHANGED <<webVars, providerVars, armSel, surface, jobs_data>>

(***************************************************************************)
(* Specifications                                                          *)
(***************************************************************************)
\* the settings as installed, and the timer the constructor's call of
\* setupAutoRefresh starts with the default interval
DefaultSettings == [autoRefresh |-> TRUE, refreshInterval |-> 5]

InitTimer ==
    /\ configuration = [slurmVSCode |-> DefaultSettings, slurmJobManager |-> DefaultSettings]
    /\ refreshInterval = <<1>>
    /\ timers = {[id |-> 1, delay |-> 5 * 1000]}

InitOther ==
    /\ selectedJobs = {}
    /\ highlightRegex = NoRegex
    /\ isConfirmingKillAll = FALSE
    /\ isPastJobsExpanded = FALSE
    /\ isScheduledJobsExpanded = FALSE
    /\ viewPending = TRUE
    /\ jobsToConfirm = {}
    /\ filterRegex = NoRegex
    /\ lastKnownJobs = <<>>
    /\ notifiedJobs = {}
    /\ selected_index = 0
    /\ selected_jobs = <<>>
    /\ filter_mode = 0
    /\ filter_text = <<>>
    /\ cursor_pos = 0
    /\ entered_regex_with_down = 0
    /\ last = Did("init", "", <<>>, {})
    /\ jobsSeen = <<>>
    /\ sel0 = {}
    /\ twice = FALSE
    /\ selPrev = {}
    /\ armSel = {}
    /\ shown = NoView
    /\ notifications = [id \in JobIds |-> 0]
    /\ posted = <<>>
    /\ InitTimer

\* no job was fetched yet
InitCommon == jobs_data = <<>> /\ fetchedJobs = <<>> /\ InitOther

\* the extension, after activation and resolveWebviewView
Init == surface = "webview" /\ inFlight = <<>> /\ InitCommon

\* either front end, after start-up
InitAny == surface \in {"webview", "terminal"} /\ inFlight = <<>> /\ InitCommon

\* the selection intents of both front ends, with polling
Next ==
    \/ surface = "webview" /\ Refresh
    \/ surface = "webview" /\ RegexEnter
    \/ surface = "webview" /\ ToggleSelection
    \/ surface = "webview" /\ SelectAll
    \/ surface = "webview" /\ ClearSelection
    \/ surface = "webview" /\ ConfirmKillAll
    \/ surface = "webview" /\ TogglePastJobs
    \/ surface = "webview" /\ ToggleScheduledJobs
    \/ surface = "terminal" /\ TermPoll
    \/ surface = "terminal" /\ KeyUp
    \/ surface = "terminal" /\ KeyDown
    \/ surface = "terminal" /\ KeyEnter
    \/ surface = "terminal" /\ Key1
    \/ surface = "terminal" /\ KeyCommand
    \/ surface = "terminal" /\ KeySlash
    \/ surface = "terminal" /\ FilterEscape
    \/ surface = "terminal" /\ FilterArrow
    \/ surface = "terminal" /\ FilterUp
    \/ surface = "terminal" /\ FilterDelete
    \/ surface = "terminal" /\ FilterType
    \/ surface = "terminal" /\ FilterEnter

Spec == InitAny /\ [][Next]_vars

\* the pattern intents of the webview and of the tree view
NextFilter ==
    \/ RegexEnter
    \/ RegexChange
    \/ SetFilter
    \/ KillSelected
    \/ ToggleScheduledJobs

SpecFilter == Init /\ [][NextFilter]_vars

\* the webview's batch kill, with the selection intents that need no fetch
NextBatch ==
    \/ Refresh
    \/ UpdateView
    \/ ToggleSelection
    \/ ClearSelection
    \/ KillSelected
    \/ ConfirmKillAll
    \/ CancelKillAll

SpecBatch == Init /\ [][NextBatch]_vars

\* the two-step kill of one job, from the webview and from the tree view
NextConfirm ==
    \/ Refresh
    \/ UpdateView
    \/ HandleAction
    \/ KillJobCommand
    \/ ConfirmKillCommand
    \/ CancelKillCommand

SpecConfirm == Init /\ [][NextConfirm]_vars

(***************************************************************************)
(* Properties                                                              *)
(***************************************************************************)

\* C1: a confirmKill (the webview's action or the tree view's command)
\* dispatches a kill for a job only when the job is in the pending-confirm
\* set; from Idle it dispatches nothing
C1_ConfirmNeedsPending ==
    [][(/\ last'.op \in {"confirmKill", "confirmKillCmd", "confirmKillCmdFailed"}
        /\ last'.kills # {})
       => last'.id \in jobsToConfirm]_vars

\* C2: the jobs a confirmKillAll kills once the batch confirmation is armed
\* are the jobs that were selected when killSelected armed it
C2_BatchFrozenAtArm ==
    [][(last'.op = "confirmKillAll" /\ isConfirmingKillAll)
       => last'.kills = armSel]_vars

\* C3: a confirmKillAll received while the batch confirmation is not armed
\* dispatches nothing and changes neither the selection nor the armed flag
C3_BatchNeedsArmed ==
    [][(last'.op = "confirmKillAll" /\ ~isConfirmingKillAll)
       => /\ last'.kills = {}
          /\ UNCHANGED <<selectedJobs, isConfirmingKillAll>>]_vars

\* C4: a confirmKillAll received while armed always disarms and leaves none
\* of the killed jobs selected, whatever the selection has become; a
\* cancelKillAll disarms, keeps the selection and dispatches nothing
C4_BatchConfirmDisarms ==
    [][/\ (last'.op = "confirmKillAll" /\ isConfirmingKillAll)
          => /\ ~isConfirmingKillAll'
             /\ selectedJobs' \cap last'.kills = {}
       /\ (last'.op = "cancelKillAll")
          => /\ ~isConfirmingKillAll'
             /\ UNCHANGED selectedJobs
             /\ last'.kills = {}]_vars

\* C5 (as stated): a poll or refresh leaves the selection unchanged, and an
\* id leaves the selection only through a toggle, a deselect-all or clear, a
\* bulk toggle or a confirmed batch kill
C5_LeavesOnlyByListedIntent ==
    [][LET before == IF surface = "webview" THEN selectedJobs ELSE Range(selected_jobs)
           after  == IF surface = "webview" THEN selectedJobs' ELSE Range(selected_jobs')
       IN  /\ last'.op \in {"refresh", "updateView", "poll"} => after = before
           /\ ~(before \subseteq after)
              => \/ last'.op \in {"toggleSelection", "deselectAll", "clearSelection",
                                  "regexEnter", "confirmKillAll", "toggle", "cancelSelected"}
                 \/ last'.op = "toggleAll" /\ selected_jobs' = <<>>]_vars

\* C5 (amended): a poll or refresh leaves the selection unchanged, and an id
\* leaves the selection only through a toggle, a deselect-all or clear, a
\* bulk toggle, a confirmed batch kill, or the terminal's header-row
\* select-all, which rebuilds the selection from the current job list
C5_SelectionSurvivesPolls ==
    [][LET before == IF surface = "webview" THEN selectedJobs ELSE Range(selected_jobs)
           after  == IF surface = "webview" THEN selectedJobs' ELSE Range(selected_jobs')
       IN  /\ last'.op \in {"refresh", "updateView", "poll"} => after = before
           /\ ~(before \subseteq after)
              => last'.op \in {"toggleSelection", "deselectAll", "clearSelection",
                               "regexEnter", "confirmKillAll", "toggle", "cancelSelected",
                               "toggleAll"}]_vars

\* C5 witness: a refresh has ingested a snapshot that holds none of the
\* selected jobs, and they are still selected
C5_StaleIdStillSelected ==
    /\ surface = "webview"
    /\ last.op = "refresh"
    /\ selectedJobs # {}
    /\ lastKnownJobs # <<>>
    /\ selectedJobs \cap Ids(lastKnownJobs) = {}

\* C6: select-all and the bulk toggle add to the selection only jobs of the
\* fetched snapshot whose section is shown: never a PENDING job while
\* Scheduled is collapsed, never a finished job while Past is collapsed
C6_OnlyVisibleJobsAdded ==
    (surface = "webview" /\ last.op \in {"regexEnter", "selectAll"})
    => \A id \in selectedJobs \ sel0 :
          \E i \in 1..Len(jobsSeen) :
              /\ jobsSeen[i].jobId = id
              /\ jobsSeen[i].status = "PENDING" => isScheduledJobsExpanded
              /\ jobsSeen[i].status \notin {"RUNNING", "COMPLETING", "PENDING"}
                    => isPastJobsExpanded

\* C6 witness: a bulk toggle selected a job although a PENDING job of the
\* snapshot matches the pattern too: Scheduled is collapsed, it stays out
C6_CollapsedMatchLeftOut ==
    /\ surface = "webview"
    /\ last.op = "regexEnter"
    /\ ~isScheduledJobsExpanded
    /\ selectedJobs \ sel0 # {}
    /\ \E i \in 1..Len(jobsSeen) :
          /\ jobsSeen[i].status = "PENDING"
          /\ RegexTest(NewRegExp(last.pat, TRUE), jobsSeen[i].name)
          /\ jobsSeen[i].jobId \notin selectedJobs

\* C7 (as stated): two regexEnter in a row with the same pattern on the same
\* snapshot return the selection to what it was before the first
C7_BulkToggleTwiceRestores ==
    (surface = "webview" /\ last.op = "regexEnter" /\ twice)
    => selectedJobs = selPrev

\* C7 (amended): in the webview, two regexEnter in a row with the same
\* pattern on the same snapshot return the selection to S when the matching
\* visible jobs M are all in S or all outside S; otherwise they leave S \ M
C7_BulkToggleTwiceRestoresUnlessPartial ==
    (surface = "webview" /\ last.op = "regexEnter" /\ twice)
    => LET vis == getVisibleJobs(jobsSeen)
           M   == {vis[i].jobId :
                     i \in {k \in 1..Len(vis) : RegexTest(NewRegExp(last.pat, TRUE), vis[k].name)}}
       IN  selectedJobs = IF M \subseteq selPrev \/ M \cap selPrev = {}
                          THEN selPrev
                          ELSE selPrev \ M

\* C7 witness: the second of two identical regexEnter has run, the pattern
\* matches visible jobs, and the selection is back where it started
C7_RoundTripDone ==
    /\ surface = "webview"
    /\ last.op = "regexEnter"
    /\ twice
    /\ selectedJobs = selPrev
    /\ \E i \in 1..Len(getVisibleJobs(jobsSeen)) :
          RegexTest(NewRegExp(last.pat, TRUE), getVisibleJobs(jobsSeen)[i].name)

\* C8 (as stated): on both front ends the bulk selection removes exactly the
\* matching jobs M if all of them are selected, and otherwise adds all of M;
\* nothing outside M changes
C8_BulkToggleAllOrNothing ==
    /\ (surface = "webview" /\ last.op = "regexEnter" /\ last.pat # <<>>
          /\ NewRegExp(last.pat, TRUE).ok)
       => LET vis == getVisibleJobs(jobsSeen)
              M   == {vis[i].jobId :
                        i \in {k \in 1..Len(vis) :
                                  RegexTest(NewRegExp(last.pat, TRUE), vis[k].name)}}
          IN  selectedJobs = IF M \subseteq sel0 THEN sel0 \ M ELSE sel0 \cup M
    /\ (surface = "terminal" /\ last.op = "filterEnter" /\ last.pat # <<>>)
       => LET M == {jobsSeen[i].jobId :
                        i \in {k \in 1..Len(jobsSeen) :
                                  RegexTest(NewRegExp(last.pat, FALSE), jobsSeen[k].name)}}
          IN  Range(selected_jobs) = IF M \subseteq sel0 THEN sel0 \ M ELSE sel0 \cup M

\* C8 (amended): the webview's regexEnter is all-or-nothing over the matching
\* visible jobs M; the terminal's filter-mode Enter only ever adds M (it
\* never toggles off); nothing outside M changes on either front end
C8_BulkToggleWebviewAddTerminal ==
    /\ (surface = "webview" /\ last.op = "regexEnter" /\ last.pat # <<>>
          /\ NewRegExp(last.pat, TRUE).ok)
       => LET vis == getVisibleJobs(jobsSeen)
              M   == {vis[i].jobId :
                        i \in {k \in 1..Len(vis) :
                                  RegexTest(NewRegExp(last.pat, TRUE), vis[k].name)}}
          IN  selectedJobs = IF M \subseteq sel0 THEN sel0 \ M ELSE sel0 \cup M
    /\ (surface = "terminal" /\ last.op = "filterEnter" /\ last.pat # <<>>)
       => LET M == {jobsSeen[i].jobId :
                        i \in {k \in 1..Len(jobsSeen) :
                                  RegexTest(NewRegExp(last.pat, FALSE), jobsSeen[k].name)}}
          IN  Range(selected_jobs) = sel0 \cup M

\* C8 witness: a regexEnter whose matching visible jobs were all selected
\* has removed them, and other selected jobs are still selected
C8_ToggledOff ==
    /\ surface = "webview"
    /\ last.op = "regexEnter"
    /\ selectedJobs # sel0
    /\ selectedJobs # {}
    /\ selectedJobs \subseteq sel0

\* C9: toggling the same job twice in a row (toggleSelection without
\* forceSelect, toggle_selection in the terminal) leaves the selection as
\* it was before the first toggle
C9_ToggleTwiceRestores ==
    (last.op \in {"toggleSelection", "toggle"} /\ twice)
    => (IF surface = "webview" THEN selectedJobs ELSE Range(selected_jobs)) = selPrev

\* C10: submitting an invalid pattern (regexChange, regexEnter, setFilter)
\* leaves the selection, the expansion flags, the batch-armed flag and the
\* pending-confirm set unchanged
C10_InvalidPatternChangesNothing ==
    [][(/\ last'.op \in {"regexEnter", "regexChange", "setFilter"}
        /\ \E i \in 1..Len(last'.pat) : last'.pat[i] = "(")
       => UNCHANGED <<selectedJobs, isPastJobsExpanded, isScheduledJobsExpanded,
                      isConfirmingKillAll, jobsToConfirm>>]_vars

\* C10 witness: the invalid pattern "(" was submitted for bulk selection
\* while jobs are selected, a section is expanded and the batch
\* confirmation is pending; the selection is the one from before
C10_InvalidSubmitted ==
    /\ last.op = "regexEnter"
    /\ last.pat = <<"(">>
    /\ selectedJobs # {}
    /\ selectedJobs = sel0
    /\ isScheduledJobsExpanded
    /\ isConfirmingKillAll

\* the extension after resolveWebviewView, whose updateView() awaits the jobs
InitAsync == surface = "webview" /\ inFlight = <<UpdateViewTask>> /\ InitCommon

\* the webview's messages and the completions of the fetches they await
NextAsync ==
    \/ Receive
    \/ Resume

SpecAsync == InitAsync /\ [][NextAsync]_vars

\* polling on both front ends, with the selection toggles as the operator's
\* input; the timers keep firing and a started updateView() completes
NextPoll ==
    \/ surface = "webview" /\ Refresh
    \/ surface = "webview" /\ UpdateView
    \/ surface = "webview" /\ ToggleSelection
    \/ surface = "terminal" /\ TermPoll
    \/ surface = "terminal" /\ KeyEnter

SpecPoll ==
    /\ InitAny
    /\ [][NextPoll]_vars
    /\ WF_vars(surface = "webview" /\ Refresh)
    /\ WF_vars(surface = "webview" /\ UpdateView)
    /\ WF_vars(surface = "terminal" /\ TermPoll)

\* polls and refreshes among the intents that set the operator's state
NextIngest ==
    \/ surface = "webview" /\ Refresh
    \/ surface = "webview" /\ UpdateView
    \/ surface = "webview" /\ RegexChange
    \/ surface = "webview" /\ ToggleScheduledJobs
    \/ surface = "webview" /\ SetFilter
    \/ surface = "webview" /\ KillJobCommand
    \/ surface = "terminal" /\ TermPoll
    \/ surface = "terminal" /\ KeySlash
    \/ surface = "terminal" /\ FilterType

SpecIngest == InitAny /\ [][NextIngest]_vars

\* the pattern text does not compile
InvalidPattern(p) == \E i \in 1..Len(p) : p[i] = "("

\* C11: every submission of an invalid pattern (regexChange while typing,
\* regexEnter on apply, setFilter) shows the operator an error message
C11_InvalidPatternReported ==
    (/\ last.op \in {"regexEnter", "regexChange", "setFilter"}
     /\ InvalidPattern(last.pat))
    => \E m \in last.msgs : m.sev = "error"

\* C12: after an invalid pattern was submitted for highlighting, no known
\* job is rendered as highlighted
C12_InvalidPatternHighlightsNothing ==
    (last.op = "regexChange" /\ InvalidPattern(last.pat))
    => \A i \in 1..Len(lastKnownJobs) : ~isHighlighted(lastKnownJobs[i])

\* C13: confirmKill and cancelKill on a job that is pending confirmation
\* remove it from the pending-confirm set, whatever the fetched snapshot holds
C13_ConfirmOrCancelClearsPending ==
    [][(/\ last'.op \in {"confirmKill", "cancelKill", "confirmKillCmd",
                         "confirmKillCmdFailed", "cancelKillCmd"}
        /\ last'.id \in jobsToConfirm)
       => last'.id \notin jobsToConfirm']_vars

\* C14: killSelected with an empty selection is refused with a warning: the
\* batch is not armed, no kill is dispatched, and the selection and the
\* pending-confirm set stay as they were
C14_EmptyBatchKillRefused ==
    [][(last'.op = "killSelected" /\ selectedJobs = {})
       => /\ UNCHANGED <<isConfirmingKillAll, selectedJobs, jobsToConfirm>>
          /\ last'.kills = {}
          /\ Msg("warning", "No jobs selected", "") \in last'.msgs]_vars

\* C14 witness: killSelected was sent in the idle state with nothing
\* selected; the warning was shown and the batch is still not armed
C14_EmptyRequestRefused ==
    /\ last.op = "killSelected"
    /\ selectedJobs = {}
    /\ ~isConfirmingKillAll
    /\ last.msgs = {Msg("warning", "No jobs selected", "")}
    /\ lastKnownJobs # <<>>

\* C15: at most one getSlurmJobs() call is in flight at any time
C15_OneFetchInFlight == Len(inFlight) <= 1

\* C16: no operator intent waits on a fetch before it is applied: the only
\* caller awaiting getSlurmJobs() is the rendering (updateView)
C16_NoIntentWaitsOnFetch ==
    \A i \in 1..Len(inFlight) : inFlight[i].type = "updateView"

\* C17: whenever a poll yields a snapshot that differs from the previous
\* one, the view is eventually drawn anew (updateView, draw_menu)
C17_ChangedPollRedraws ==
    (last.op \in {"refresh", "poll"} /\ last.changed) ~> last.drew

\* C18: every job of the last-known map that was RUNNING or PENDING and is
\* absent from the snapshot a fetch ingests (an empty snapshot included) is
\* reported by that fetch with a message about it
C18_VanishedJobsReported ==
    [][last'.env \in {"listed", "empty"}
       => \A i \in 1..Len(lastKnownJobs) :
             (/\ lastKnownJobs[i].status \in {"RUNNING", "PENDING"}
              /\ lastKnownJobs[i].jobId \notin
                    (IF last'.env = "listed" THEN Ids(lastKnownJobs') ELSE {}))
             => Msg("info", "Job has finished", lastKnownJobs[i].jobId) \in last'.msgs]_vars

\* C19: a fetch that finds the scheduler tooling unavailable reports no
\* vanished job and leaves the last-known map, the selection, the expansion
\* flags, the batch-armed flag and the pending-confirm set unchanged
C19_FailedFetchIsNoChange ==
    [][last'.env = "down"
       => /\ \A m \in last'.msgs : m.text # "Job has finished"
          /\ UNCHANGED <<lastKnownJobs, notifiedJobs, selectedJobs, isPastJobsExpanded,
                         isScheduledJobsExpanded, isConfirmingKillAll, jobsToConfirm>>]_vars

\* C19 witness: the view was drawn from a failed fetch while jobs are known
\* and not yet reported, some are selected and the batch is armed
C19_FailedFetchIngested ==
    /\ last.op = "updateView"
    /\ last.env = "down"
    /\ last.msgs = {}
    /\ \E i \in 1..Len(lastKnownJobs) : lastKnownJobs[i].jobId \notin notifiedJobs
    /\ selectedJobs # {}
    /\ isConfirmingKillAll

\* C20: a poll, a refresh or the fetch of a redraw never changes the
\* highlight and filter patterns, the expansion flags, the pending-confirm
\* set or the batch-armed flag, nor the terminal UI's filter field
C20_PollingKeepsOperatorState ==
    [][last'.op \in {"refresh", "updateView", "poll"}
       => UNCHANGED <<highlightRegex, filterRegex, isPastJobsExpanded,
                      isScheduledJobsExpanded, jobsToConfirm, isConfirmingKillAll,
                      filter_mode, filter_text, cursor_pos>>]_vars

\* C20 witness: the view was drawn from a snapshot that differs from the one
\* before while a highlight and a filter pattern are set, the Scheduled
\* section is expanded and a job is pending confirmation
C20_PolledWithStateSet ==
    /\ last.op = "updateView"
    /\ last.env = "listed"
    /\ last.msgs # {}
    /\ highlightRegex # NoRegex
    /\ filterRegex # NoRegex
    /\ isScheduledJobsExpanded
    /\ jobsToConfirm # {}

\* the rows a terminal UI can hold from an earlier poll: the jobs in squeue's
\* order of that time, job "1" possibly listed as COMPLETING
HeldListings ==
    UNION {{q,
            [i \in 1..Len(q) |-> q[Len(q) + 1 - i]],
            [i \in 1..Len(q) |-> IF q[i].jobId = "1"
                                 THEN [q[i] EXCEPT !.status = "COMPLETING"]
                                 ELSE q[i]]} : q \in AllListings}

\* the terminal UI while it holds the rows of an earlier poll
InitRedraw ==
    /\ surface = "terminal"
    /\ inFlight = <<>>
    /\ jobs_data \in HeldListings
    /\ fetchedJobs = <<>>
    /\ InitOther

\* the terminal UI's polls, among the keys of normal mode
NextRedraw ==
    \/ TermPoll
    \/ KeyUp
    \/ KeyDown
    \/ KeyEnter

SpecRedraw == InitRedraw /\ [][NextRedraw]_vars

\* C21: a poll whose snapshot equals the held one (same jobs, same order,
\* same field values) reports no change, keeps the held rows and draws
\* nothing; a poll whose snapshot differs in an id, the order or a field
\* value reports a change, replaces the held rows and draws the menu
C21_RedrawOnlyOnChange ==
    [][last'.op = "poll"
       => /\ last'.changed = (jobsSeen' # jobs_data)
          /\ last'.drew = last'.changed
          /\ jobs_data' = jobsSeen']_vars

\* C21 witness: a poll found both jobs listed, but not as the rows held say;
\* it replaced the rows and the menu was drawn, the cursor and the selection
\* being where the operator left them
C21_ChangedPollDrew ==
    /\ last.op = "poll"
    /\ last.changed
    /\ last.drew
    /\ Len(jobs_data) = 2
    /\ jobs_data = jobsSeen
    /\ selected_index = 1
    /\ selected_jobs = <<"2", "1">>

\* C22: the intents handled between two ticks of the driver have the view
\* drawn at most once; in particular no handled key or message has the view
\* drawn more than once (draw_menu calls, webview renderings)
C22_RedrawsCoalesced == last.draws <= 1

(***************************************************************************)
(* The view functions: what the webview and the tree view make of the job  *)
(* list that getSlurmJobs() returns                                        *)
(***************************************************************************)

\* the setting jobHistorySize: how many past jobs the webview shows
jobHistorySize == 2

\* states squeue lists a job in, and final states sacct reports
QueueStates == {"RUNNING", "COMPLETING", "PENDING"}

FinalStates == {"FAILED", "COMPLETED", "CANCELLED"}

\* the job lists getSlurmJobs() returns about the four jobs of IdOf: the jobs
\* squeue lists (at least one, or it returns early), then the jobs it found
\* finished, with sacct's state
Snapshots ==
    {SelectSeq([i \in DOMAIN IdOf |-> MkJob(IdOf[i], st[i])],
               LAMBDA j : j.status \in QueueStates)
       \o SelectSeq([i \in DOMAIN IdOf |-> MkJob(IdOf[i], st[i])],
                    LAMBDA j : j.status \in FinalStates) :
        st \in {f \in [DOMAIN IdOf -> QueueStates \cup FinalStates] :
                   \E i \in DOMAIN IdOf : f[i] \in QueueStates}}

\* String.prototype.localeCompare on names: the letters are compared without
\* regard to case, digits sorting before letters; between names that differ
\* in case only, the lower-case letter sorts first
Collation == <<"2", "a", "e", "i", "l", "n", "r", "s", "t", "v">>

Primary(c) == CHOOSE i \in 1..Len(Collation) : Collation[i] = ToLower(c)

RECURSIVE ComparePrimary(_, _)
ComparePrimary(a, b) ==
    IF a = <<>> /\ b = <<>> THEN 0
    ELSE IF a = <<>> THEN -1
    ELSE IF b = <<>> THEN 1
    ELSE IF Primary(Head(a)) < Primary(Head(b)) THEN -1
    ELSE IF Primary(Head(a)) > Primary(Head(b)) THEN 1
    ELSE ComparePrimary(Tail(a), Tail(b))

RECURSIVE CompareCase(_, _)
CompareCase(a, b) ==
    IF a = <<>> \/ b = <<>> THEN 0
    ELSE IF Head(a) = Head(b) THEN CompareCase(Tail(a), Tail(b))
    ELSE IF ToLower(Head(a)) = Head(a) THEN -1
    ELSE 1

localeCompare(a, b) ==
    IF ComparePrimary(a, b) # 0 THEN ComparePrimary(a, b) ELSE CompareCase(a, b)

\* updateView: statusPriority[status] ?? 999
statusPriority(status) ==
    CASE status = "RUNNING"    -> 0
      [] status = "PENDING"    -> 1
      [] status = "COMPLETING" -> 2
      [] status = "FAILED"     -> 3
      [] OTHER                 -> 999

\* updateView: the comparison its sort is given
updateViewBefore(a, b) ==
    \/ statusPriority(a.status) < statusPriority(b.status)
    \/ /\ statusPriority(a.status) = statusPriority(b.status)
       /\ localeCompare(a.name, b.name) < 0

\* updateView: the sorted jobs, and the three categories they are separated
\* into (pastJobsAll: the past jobs before the slice to historySize)
sortedJobs(jobs) == SortSeq(jobs, updateViewBefore)

runningJobs(jobs) ==
    SelectSeq(sortedJobs(jobs), LAMBDA j : j.status = "RUNNING" \/ j.status = "COMPLETING")

scheduledJobs(jobs) == SelectSeq(sortedJobs(jobs), LAMBDA j : j.status = "PENDING")

pastJobsAll(jobs) ==
    SelectSeq(sortedJobs(jobs),
              LAMBDA j : j.status # "RUNNING" /\ j.status # "PENDING" /\ j.status # "COMPLETING")

pastJobs(jobs) ==
    SubSeq(pastJobsAll(jobs), 1,
           IF Len(pastJobsAll(jobs)) < jobHistorySize THEN Len(pastJobsAll(jobs))
           ELSE jobHistorySize)

\* updateView: the job rows of the html that are on display, the content of
\* a collapsed section being hidden
Rendered(jobs) ==
    runningJobs(jobs)
      \o (IF isScheduledJobsExpanded THEN scheduledJobs(jobs) ELSE <<>>)
      \o (IF isPastJobsExpanded THEN pastJobs(jobs) ELSE <<>>)

\* getChildren: statusOrder[status] ?? 999
statusOrder(status) ==
    CASE status = "RUNNING"    -> 0
      [] status = "COMPLETING" -> 1
      [] status = "PENDING"    -> 2
      [] status = "FAILED"     -> 3
      [] status = "FINISHED"   -> 4
      [] status = "COMPLETED"  -> 4
      [] OTHER                 -> 999

\* getChildren: the comparison its sort is given (a JobItem's label is the
\* job's name)
getChildrenBefore(a, b) ==
    \/ statusOrder(a.status) < statusOrder(b.status)
    \/ /\ statusOrder(a.status) = statusOrder(b.status)
       /\ localeCompare(a.name, b.name) < 0

\* getChildren: the tree items made of the jobs
getChildren(jobs) ==
    SortSeq(IF filterRegex # NoRegex
            THEN SelectSeq(jobs, LAMBDA j : RegexTest(filterRegex[1], j.name))
            ELSE jobs,
            getChildrenBefore)

\* a view function is applied to the job list: getVisibleJobs (by selectAll
\* and regexEnter), updateView's rendering, getChildren
ApplyGetVisibleJobs ==
    /\ shown' = [fn |-> "getVisibleJobs", jobs |-> getVisibleJobs(fetchedJobs)]
    /\ UNCHANGED <<webVars, providerVars, termVars, obsVars, fetchedJobs, notifications, posted,
                   timerVars>>

ApplyUpdateView ==
    /\ shown' = [fn |-> "updateView", jobs |-> Rendered(fetchedJobs)]
    /\ UNCHANGED <<webVars, providerVars, termVars, obsVars, fetchedJobs, notifications, posted,
                   timerVars>>

ApplyGetChildren ==
    /\ shown' = [fn |-> "getChildren", jobs |-> getChildren(fetchedJobs)]
    /\ UNCHANGED <<webVars, providerVars, termVars, obsVars, fetchedJobs, notifications, posted,
                   timerVars>>

\* the extension holding a job list that getSlurmJobs() returned
InitView ==
    /\ surface = "webview"
    /\ inFlight = <<>>
    /\ jobs_data = <<>>
    /\ fetchedJobs \in Snapshots
    /\ InitOther

\* the view functions among the section toggles
NextView ==
    \/ TogglePastJobs
    \/ ToggleScheduledJobs
    \/ ApplyGetVisibleJobs
    \/ ApplyUpdateView
    \/ ApplyGetChildren

SpecView == InitView /\ [][NextView]_vars

\* the ids of the jobs of a list whose status is one of a set
IdsIn(jobs, statuses) ==
    {jobs[i].jobId : i \in {k \in 1..Len(jobs) : jobs[k].status \in statuses}}

\* C23: collapsing the Scheduled or the Past section removes exactly that
\* section's jobs from the visible jobs and leaves the membership of the
\* other section's jobs as it was; the RUNNING and COMPLETING jobs are
\* visible whatever the expansion flags are
C23_CollapseRemovesOnlyItsSection ==
    [][LET before == Ids(getVisibleJobs(fetchedJobs))
           after  == Ids(getVisibleJobs(fetchedJobs))'
           active == IdsIn(fetchedJobs, {"RUNNING", "COMPLETING"})
           sched  == IdsIn(fetchedJobs, {"PENDING"})
           hist   == Ids(fetchedJobs) \ (active \cup sched)
       IN  /\ active \subseteq after
           /\ (isPastJobsExpanded /\ ~isPastJobsExpanded')
              => after = before \ hist
           /\ (isScheduledJobsExpanded /\ ~isScheduledJobsExpanded')
              => after = before \ sched]_vars

\* C23 witness: the Past section was collapsed over a job list with a
\* running, a pending and a completed job while Scheduled is expanded: the
\* running and the pending job are the visible ones
C23_PastCollapsed ==
    /\ last.op = "togglePastJobs"
    /\ ~isPastJobsExpanded
    /\ isScheduledJobsExpanded
    /\ IdsIn(fetchedJobs, {"RUNNING"}) # {}
    /\ IdsIn(fetchedJobs, {"PENDING"}) # {}
    /\ IdsIn(fetchedJobs, {"COMPLETED"}) # {}
    /\ shown.fn = "getVisibleJobs"
    /\ Ids(getVisibleJobs(fetchedJobs)) = IdsIn(fetchedJobs, {"RUNNING", "PENDING"})

\* C24: every job belongs to one section by its status alone, and the
\* section getVisibleJobs counts it in is the section updateView displays it
\* in: a job is among the visible jobs exactly if it is RUNNING or COMPLETING,
\* or of the Scheduled section while that is expanded, or of the Past section
\* while that is expanded
C24_VisibleSectionIsDisplayedSection ==
    Ids(getVisibleJobs(fetchedJobs)) =
        Ids(runningJobs(fetchedJobs))
          \cup (IF isScheduledJobsExpanded THEN Ids(scheduledJobs(fetchedJobs)) ELSE {})
          \cup (IF isPastJobsExpanded THEN Ids(pastJobsAll(fetchedJobs)) ELSE {})

\* C25: while the Past section is expanded, the finished jobs among the
\* visible jobs are the first min(jobHistorySize, n) of the n finished jobs,
\* taken in the order of status priority and name
C25_HistoricalCapped ==
    isPastJobsExpanded
    => LET hist == SelectSeq(getChildren(fetchedJobs),
                             LAMBDA j : j.status \notin {"RUNNING", "COMPLETING", "PENDING"})
           n    == IF Len(hist) < jobHistorySize THEN Len(hist) ELSE jobHistorySize
       IN  Ids(getVisibleJobs(fetchedJobs)) \cap Ids(hist) = Ids(SubSeq(hist, 1, n))

\* the order of the visible sequence: RUNNING < COMPLETING < PENDING < FAILED
\* < COMPLETED or FINISHED < any other status, then the name ascending
PriorityOf(status) ==
    CASE status = "RUNNING"    -> 0
      [] status = "COMPLETING" -> 1
      [] status = "PENDING"    -> 2
      [] status = "FAILED"     -> 3
      [] status \in {"COMPLETED", "FINISHED"} -> 4
      [] OTHER                 -> 5

\* C26: the jobs on display come in the order Active, Scheduled, Historical,
\* each group by status priority (RUNNING < COMPLETING < PENDING < FAILED <
\* COMPLETED or FINISHED < any other) and then by name, in the webview
\* (updateView) as in the tree view (getChildren)
C26_DisplayedInPriorityOrder ==
    shown.fn \in {"updateView", "getChildren"}
    => \A i, k \in 1..Len(shown.jobs) :
          i < k
          => \/ PriorityOf(shown.jobs[i].status) < PriorityOf(shown.jobs[k].status)
             \/ /\ PriorityOf(shown.jobs[i].status) = PriorityOf(shown.jobs[k].status)
                /\ localeCompare(shown.jobs[i].name, shown.jobs[k].name) <= 0

(***************************************************************************)
(* Matching a pattern against the jobs: the places where the two front     *)
(* ends test a job against the operator's pattern                          *)
(***************************************************************************)

\* display names of the jobs the patterns are matched against
MatchNames == {<<"t", "r">>, <<"T", "R">>, <<"t", "R">>, <<"e", "1">>}

\* the patterns matched against them
MatchPatterns == {<<"r">>, <<"T">>, <<"^", "t">>, <<"1">>, <<"(">>}

\* job lists of two jobs that differ in identifier and status
MatchListings ==
    {<<[jobId |-> "1", name |-> a, status |-> "RUNNING"],
       [jobId |-> "2", name |-> b, status |-> "COMPLETING"]>> :
        a \in MatchNames, b \in MatchNames}

\* regexEnter: matchingJobs, after new RegExp(data.value, 'i')
ApplyRegexEnter ==
    /\ \E pattern \in MatchPatterns :
          shown' = [fn |-> "regexEnter",
                    jobs |-> SelectSeq(getVisibleJobs(fetchedJobs),
                                       LAMBDA job : RegexTest(NewRegExp(pattern, TRUE), job.name))]
    /\ UNCHANGED <<webVars, providerVars, termVars, obsVars, fetchedJobs, notifications, posted,
                   timerVars>>

\* regexChange, then generateJobsHtml: the jobs with isHighlighted
ApplyRegexChange ==
    /\ \E pattern \in MatchPatterns :
          shown' = [fn |-> "regexChange",
                    jobs |-> SelectSeq(fetchedJobs,
                                       LAMBDA job : RegexTest(NewRegExp(pattern, TRUE), job.name))]
    /\ UNCHANGED <<webVars, providerVars, termVars, obsVars, fetchedJobs, notifications, posted,
                   timerVars>>

\* setFilter, then getChildren: the jobs the tree view keeps
ApplySetFilter ==
    /\ \E pattern \in MatchPatterns :
          shown' = [fn |-> "setFilter",
                    jobs |-> SelectSeq(fetchedJobs,
                                       LAMBDA job : RegexTest(NewRegExp(pattern, TRUE), job.name))]
    /\ UNCHANGED <<webVars, providerVars, termVars, obsVars, fetchedJobs, notifications, posted,
                   timerVars>>

\* filter mode, Enter: the jobs whose [[ "$name" =~ $filter_text ]] holds,
\* as the loop adds them to an empty selection
ApplyFilterEnter ==
    /\ filter_text # <<>>
    /\ shown' = [fn |-> "filterEnter",
                 jobs |-> SelectSeq(jobs_data,
                                    LAMBDA job : job.jobId \in
                                        Range(AddMatching(<<>>, jobs_data,
                                                          NewRegExp(filter_text, FALSE))))]
    /\ UNCHANGED <<webVars, providerVars, termVars, obsVars, fetchedJobs, notifications, posted,
                   timerVars>>

\* draw_menu in filter mode: the unselected jobs marked [x]
ApplyDrawMenu ==
    /\ filter_text # <<>>
    /\ shown' = [fn |-> "draw_menu",
                 jobs |-> SelectSeq(jobs_data,
                                    LAMBDA job : /\ ~InSelection(selected_jobs, job.jobId)
                                                 /\ RegexTest(NewRegExp(filter_text, FALSE),
                                                              job.name))]
    /\ UNCHANGED <<webVars, providerVars, termVars, obsVars, fetchedJobs, notifications, posted,
                   timerVars>>

\* both front ends hold the same two jobs; the terminal UI is in filter mode
\* with a pattern typed
InitMatch ==
    /\ surface \in {"webview", "terminal"}
    /\ inFlight = <<>>
    /\ fetchedJobs \in MatchListings
    /\ jobs_data = fetchedJobs
    /\ selectedJobs = {}
    /\ highlightRegex = NoRegex
    /\ isConfirmingKillAll = FALSE
    /\ isPastJobsExpanded = FALSE
    /\ isScheduledJobsExpanded = FALSE
    /\ viewPending = FALSE
    /\ jobsToConfirm = {}
    /\ filterRegex = NoRegex
    /\ lastKnownJobs = <<>>
    /\ notifiedJobs = {}
    /\ selected_index = 0
    /\ selected_jobs = <<>>
    /\ filter_mode = IF surface = "terminal" THEN 1 ELSE 0
    /\ filter_text \in IF surface = "terminal" THEN MatchPatterns ELSE {<<>>}
    /\ cursor_pos = Len(filter_text)
    /\ entered_regex_with_down = 0
    /\ last = Did("init", "", <<>>, {})
    /\ jobsSeen = <<>>
    /\ sel0 = {}
    /\ twice = FALSE
    /\ selPrev = {}
    /\ armSel = {}
    /\ shown = NoView
    /\ notifications = [id \in JobIds |-> 0]
    /\ posted = <<>>
    /\ InitTimer

NextMatch ==
    \/ surface = "webview" /\ ApplyRegexEnter
    \/ surface = "webview" /\ ApplyRegexChange
    \/ surface = "webview" /\ ApplySetFilter
    \/ surface = "terminal" /\ ApplyFilterEnter
    \/ surface = "terminal" /\ ApplyDrawMenu

SpecMatch == InitMatch /\ [][NextMatch]_vars

\* a name with its letters in lower case
Lower(name) == [k \in 1..Len(name) |-> ToLower(name[k])]

\* C27: whatever the pattern, two jobs whose display names are equal up to
\* letter case get the same match result in highlighting, bulk selection and
\* list filtering, whatever their identifier and status
C27_MatchByNameIgnoringCase ==
    shown.fn \in {"regexEnter", "regexChange", "setFilter", "filterEnter", "draw_menu"}
        => \A i, j \in 1..Len(fetchedJobs) :
              Lower(fetchedJobs[i].name) = Lower(fetchedJobs[j].name)
                  => (fetchedJobs[i].jobId \in Ids(shown.jobs)
                        <=> fetchedJobs[j].jobId \in Ids(shown.jobs))

\* C28: in the terminal UI, are_all_jobs_selected holds iff every job id of
\* the current job list is in the selection (so that Enter on the header row
\* clears the selection exactly when all jobs are selected, and selects all
\* jobs otherwise)
C28_AllSelectedIffEveryJobSelected ==
    surface = "terminal"
        => (are_all_jobs_selected(selected_jobs, jobs_data)
              <=> Ids(jobs_data) \subseteq Range(selected_jobs))

NextHighlight ==
    \/ surface = "webview" /\ RegexChange
    \/ surface = "webview" /\ RegexEnter
    \/ surface = "webview" /\ ToggleSelection
    \/ surface = "terminal" /\ TermPoll
    \/ surface = "terminal" /\ KeyDown
    \/ surface = "terminal" /\ KeyEnter
    \/ surface = "terminal" /\ KeySlash
    \/ surface = "terminal" /\ FilterType
    \/ surface = "terminal" /\ FilterDelete
    \/ surface = "terminal" /\ FilterEnter

SpecHighlight == InitAny /\ [][NextHighlight]_vars

\* C30: changing the highlight pattern (regexChange in the webview, typing
\* or deleting in the terminal's filter field), with a valid or an invalid
\* pattern, leaves the selection as it was
C30_HighlightingKeepsSelection ==
    [][(RegexChange \/ FilterType \/ FilterDelete)
          => /\ selectedJobs' = selectedJobs
             /\ selected_jobs' = selected_jobs]_vars

\* C30 (witness): the webview took an invalid highlight pattern while jobs
\* were selected
C30_HighlightedWithSelection ==
    /\ surface = "webview"
    /\ last.op = "regexChange"
    /\ InvalidPattern(last.pat)
    /\ selectedJobs # {}

\* C31: once a confirmed kill has been dispatched, the job is no longer in
\* the pending-confirm set, whether the dispatch succeeded or failed, and the
\* handler dispatched the kill of that one job and nothing else
C31_DispatchedKillClearsPending ==
    [][(/\ last'.op \in {"confirmKill", "confirmKillCmd", "confirmKillCmdFailed"}
        /\ last'.kills # {})
       => /\ last'.id \notin jobsToConfirm'
          /\ last'.kills = {last'.id}]_vars

\* C31 (witness): scancel failed for a confirmed job; the job is not pending
\* any more while another job still is
C31_FailedDispatchCleared ==
    /\ last.op = "confirmKillCmdFailed"
    /\ last.kills = {last.id}
    /\ Msg("error", "Failed to kill job", last.id) \in last.msgs
    /\ last.id \notin jobsToConfirm
    /\ jobsToConfirm # {}

\* C32: cancelKill on a job that is pending confirmation takes it out of the
\* pending-confirm set and dispatches no kill; a confirmKill that follows the
\* cancelKill of the same job, with no kill request in between, dispatches
\* no kill either
C32_CancelReturnsToIdleWithoutKill ==
    [][/\ (/\ last'.op \in {"cancelKill", "cancelKillCmd"}
           /\ last'.id \in jobsToConfirm)
          => (last'.id \notin jobsToConfirm' /\ last'.kills = {})
       /\ (/\ last.op \in {"cancelKill", "cancelKillCmd"}
           /\ last.id \notin jobsToConfirm
           /\ last'.op \in {"confirmKill", "confirmKillCmd", "confirmKillCmdFailed"}
           /\ last'.id = last.id)
          => last'.kills = {}]_vars

\* C33: a kill request for a job that is already pending confirmation leaves
\* the pending-confirm set as it is, and one confirmKill or cancelKill of the
\* job after its kill requests takes it out of the set
C33_RequestKillReentrant ==
    [][/\ (/\ last'.op \in {"kill", "killJob"}
           /\ last'.id \in jobsToConfirm)
          => jobsToConfirm' = jobsToConfirm
       /\ (/\ last.op \in {"kill", "killJob"}
           /\ last.id \in jobsToConfirm
           /\ last'.op \in {"confirmKill", "cancelKill", "confirmKillCmd",
                            "confirmKillCmdFailed", "cancelKillCmd"}
           /\ last'.id = last.id)
          => last'.id \notin jobsToConfirm']_vars

(***************************************************************************)
(* getSlurmJobs() call by call: a call yields at each await (the squeue    *)
(* commands, then one sacct per job found gone), and other calls run       *)
(* meanwhile                                                               *)
(***************************************************************************)

\* who calls getSlurmJobs(): getChildren after a refresh, updateView, handleAction
Callers == {"getChildren", "updateView", "handleAction"}

\* a call in progress: where it waits, its currentJobs and jobs, and the
\* entries of the lastKnownJobs map its for-loop has still to visit (the
\* first of them is the job whose sacct it awaits)
Call(caller, pc, currentJobs, jobs, todo) ==
    [caller |-> caller, pc |-> pc, currentJobs |-> currentJobs, jobs |-> jobs, todo |-> todo]

\* the for-loop runs on to the next entry that passes both tests, where it
\* awaits sacct (notified is this.notifiedJobs as the loop reads it); <<>>
\* when it reaches the end of the map
RECURSIVE NextGone(_, _, _)
NextGone(todo, currentJobs, notified) ==
    IF todo = <<>> THEN <<>>
    ELSE IF /\ Head(todo).jobId \notin Ids(currentJobs)
            /\ Head(todo).jobId \notin notified
            /\ Head(todo).status \in {"RUNNING", "PENDING"}
         THEN todo
         ELSE NextGone(Tail(todo), currentJobs, notified)

\* the calls in flight without the i-th
Others(i) == SubSeq(inFlight, 1, i - 1) \o SubSeq(inFlight, i + 1, Len(inFlight))

\* a caller starts getSlurmJobs(), which awaits squeue
StartCall ==
    /\ Len(inFlight) < MaxInFlight
    /\ \E caller \in Callers :
          inFlight' = Append(inFlight, Call(caller, "squeue", <<>>, <<>>, <<>>))
    /\ UNCHANGED <<selectedJobs, highlightRegex, isConfirmingKillAll, isPastJobsExpanded,
                   isScheduledJobsExpanded, viewPending, providerVars, termVars, obsVars,
                   viewVars>>

\* squeue answers a call: no output ends the call with [], otherwise the
\* call parses the listing and enters its loop over lastKnownJobs
SqueueDone ==
    /\ \E i \in 1..Len(inFlight), listing \in AllListings :
          LET call == inFlight[i]
              todo == NextGone(lastKnownJobs, listing, notifiedJobs)
          IN  /\ call.pc = "squeue"
              /\ IF listing = <<>>
                 THEN /\ inFlight' = Others(i)
                      /\ shown' = [fn |-> "getSlurmJobs", jobs |-> <<>>]
                      /\ UNCHANGED lastKnownJobs
                 ELSE IF todo = <<>>
                 THEN /\ inFlight' = Others(i)
                      /\ shown' = [fn |-> "getSlurmJobs", jobs |-> listing]
                      /\ lastKnownJobs' = listing
                 ELSE /\ inFlight' = [inFlight EXCEPT
                                        ![i] = Call(call.caller, "sacct", listing, listing, todo)]
                      /\ UNCHANGED <<shown, lastKnownJobs>>
    /\ UNCHANGED <<selectedJobs, highlightRegex, isConfirmingKillAll, isPastJobsExpanded,
                   isScheduledJobsExpanded, viewPending, jobsToConfirm, filterRegex,
                   notifiedJobs, termVars, obsVars, fetchedJobs, notifications, posted,
                   timerVars>>

\* sacct answers a call: with a final state the job is notified and pushed
\* to jobs; the job is marked notified; the loop runs on
SacctDone ==
    /\ \E i \in 1..Len(inFlight), finalStatus \in SacctOut :
          LET call == inFlight[i]
              job  == Head(call.todo)
              jobs == IF finalStatus = "" THEN call.jobs
                      ELSE Append(call.jobs, [job EXCEPT !.status = finalStatus])
          IN  /\ call.pc = "sacct"
              /\ notifications' = IF finalStatus = "" THEN notifications
                                  ELSE [notifications EXCEPT ![job.jobId] = @ + 1]
              /\ notifiedJobs' = notifiedJobs \cup {job.jobId}
              /\ LET todo == NextGone(Tail(call.todo), call.currentJobs,
                                     notifiedJobs \cup {job.jobId})
                 IN  IF todo = <<>>
                     THEN /\ inFlight' = Others(i)
                          /\ shown' = [fn |-> "getSlurmJobs", jobs |-> jobs]
                          /\ lastKnownJobs' = call.currentJobs
                     ELSE /\ inFlight' = [inFlight EXCEPT
                                            ![i] = Call(call.caller, "sacct",
                                                        call.currentJobs, jobs, todo)]
                          /\ UNCHANGED <<shown, lastKnownJobs>>
    /\ UNCHANGED <<selectedJobs, highlightRegex, isConfirmingKillAll, isPastJobsExpanded,
                   isScheduledJobsExpanded, viewPending, jobsToConfirm, filterRegex,
                   termVars, obsVars, fetchedJobs, posted, timerVars>>

\* calls of getSlurmJobs() running concurrently
NextCalls ==
    \/ StartCall
    \/ SqueueDone
    \/ SacctDone

SpecCalls == Init /\ [][NextCalls]_vars

\* C34: for each job that leaves the queue the completion notification is
\* shown, and the job pushed to a returned job list, at most once, however
\* the running getSlurmJobs() calls interleave
C34_NotifiedAtMostOnce ==
    \A id \in JobIds : notifications[id] <= 1

(***************************************************************************)
(* The order of the selection messages: each handler runs up to its first  *)
(* await when the message arrives and on from it when the fetch resolves   *)
(***************************************************************************)

\* number of messages the webview posts in one run
MaxPosted == 2

\* the selection messages of the webview
Intents ==
    {Task("toggleSelection", "", id, <<>>) : id \in JobIds}
    \cup {Task("selectAll", f, "", <<>>) : f \in {"force", ""}}
    \cup {Task("clearSelection", "", "", <<>>)}
    \cup {Task("regexEnter", "", "", <<"^", "t">>)}
    \cup {Task("confirmKillAll", "", "", <<>>)}

\* the messages whose handler awaits getSlurmJobs() before it writes the selection
Awaiting(msg) == msg.type \in {"selectAll", "regexEnter"}

\* an awaited fetch and the message (the n-th posted) whose handler awaits it;
\* n = 0 for the fetch of an updateView()
Awaited(msg, n) == [type |-> msg.type, arg |-> msg.arg, id |-> msg.id, pat |-> msg.pat, n |-> n]

\* the selection a handler leaves, given the selection it finds and the jobs
\* it fetched (if it fetches)
Handled(msg, jobs, selection) ==
    CASE msg.type = "toggleSelection" -> Toggled(selection, msg.id, FALSE)
      [] msg.type = "selectAll" ->
            IF msg.arg = "force" THEN selection \cup Ids(getVisibleJobs(jobs)) ELSE {}
      [] msg.type = "regexEnter" ->
            BulkToggle(SelectSeq(getVisibleJobs(jobs),
                                 LAMBDA j : RegexTest(NewRegExp(msg.pat, TRUE), j.name)),
                       selection)
      [] OTHER -> {}

\* onDidReceiveMessage: the handler runs to its first await, or to its end
\* (which starts an un-awaited updateView(), except in an empty confirmKillAll)
ReceiveIntent ==
    /\ Len(posted) < MaxPosted
    /\ \E msg \in Intents :
          /\ posted' = Append(posted, [msg |-> msg, jobs |-> <<>>, done |-> ~Awaiting(msg)])
          /\ selectedJobs' = IF Awaiting(msg) THEN selectedJobs
                             ELSE Handled(msg, <<>>, selectedJobs)
          /\ isConfirmingKillAll' = IF msg.type = "confirmKillAll" /\ selectedJobs # {}
                                    THEN FALSE
                                    ELSE isConfirmingKillAll
          /\ inFlight' = IF Awaiting(msg)
                         THEN Append(inFlight, Awaited(msg, Len(posted) + 1))
                         ELSE IF msg.type = "confirmKillAll" /\ selectedJobs = {}
                         THEN inFlight
                         ELSE Append(inFlight, Awaited(UpdateViewTask, 0))
          /\ last' = Did("received", msg.id, msg.pat,
                         IF msg.type = "confirmKillAll" THEN selectedJobs ELSE {})
    /\ viewPending' = (\E i \in 1..Len(inFlight') : inFlight'[i].type = "updateView")
    /\ jobsSeen' = <<>>
    /\ sel0' = {}
    /\ twice' = FALSE
    /\ selPrev' = {}
    /\ UNCHANGED <<highlightRegex, isPastJobsExpanded, isScheduledJobsExpanded, providerVars,
                   armSel, termVars, fetchedJobs, shown, notifications, timerVars>>

\* an awaited getSlurmJobs() resolves: selectAll and regexEnter write the
\* selection and call updateView(); updateView writes the html
ResumeIntent ==
    /\ \E i \in 1..Len(inFlight), e \in EnvOutcomes :
          LET t == inFlight[i]
              r == GetSlurmJobs(e)
          IN  /\ Fetched(r)
              /\ selectedJobs' = IF t.type = "updateView" THEN selectedJobs
                                 ELSE Handled(t, r.jobs, selectedJobs)
              /\ highlightRegex' = IF t.type = "regexEnter" THEN NoRegex ELSE highlightRegex
              /\ posted' = IF t.type = "updateView" THEN posted
                           ELSE [posted EXCEPT ![t.n].jobs = r.jobs, ![t.n].done = TRUE]
              /\ inFlight' = IF t.type = "updateView" THEN Others(i)
                             ELSE Append(Others(i), Awaited(UpdateViewTask, 0))
              /\ last' = [Heard(Did("resumed", t.id, t.pat, {}), e)
                            EXCEPT !.drew = (t.type = "updateView"),
                                   !.draws = IF t.type = "updateView" THEN 1 ELSE 0]
    /\ viewPending' = (\E i \in 1..Len(inFlight') : inFlight'[i].type = "updateView")
    /\ jobsSeen' = <<>>
    /\ sel0' = {}
    /\ twice' = FALSE
    /\ selPrev' = {}
    /\ UNCHANGED <<isConfirmingKillAll, isPastJobsExpanded, isScheduledJobsExpanded,
                   jobsToConfirm, filterRegex, armSel, termVars, fetchedJobs, shown,
                   notifications, timerVars>>

NextIntents ==
    \/ ReceiveIntent
    \/ ResumeIntent

SpecIntents == Init /\ [][NextIntents]_vars

\* the selection after the handlers of the first n posted messages have run
\* one after the other, each with the jobs it fetched
RECURSIVE InOrder(_)
InOrder(n) ==
    IF n = 0 THEN {}
    ELSE Handled(posted[n].msg, posted[n].jobs, InOrder(n - 1))

\* C35: once the handlers of all posted messages have completed, the
\* selection is what handling the messages one after the other, in the order
\* they were posted, leaves
C35_IntentsTakeEffectInOrder ==
    (\A n \in 1..Len(posted) : posted[n].done) => selectedJobs = InOrder(Len(posted))

\* C36: in the terminal UI's normal mode the cursor is on the header row or
\* on a row of the job list, also after a poll that shortened the list; a
\* single-job cancel is never dispatched from the header row, and Enter and
\* the single-job cancel act on the job of an existing row
C36_CursorOnHeaderOrRow ==
    surface = "terminal" =>
        /\ (filter_mode = 0 /\ jobs_data # <<>>)
              => (-1 <= selected_index /\ selected_index <= Len(jobs_data) - 1)
        /\ last.op = "cancelJob" => selected_index # -1
        /\ last.op \in {"toggle", "cancelJob"} => last.id # ""

\* C37: every element of the terminal UI's selected_jobs is the non-empty
\* identifier of a job of the scheduler, so that a batch cancel never runs
\* scancel with an empty id
C37_SelectionHoldsJobIds ==
    surface = "terminal" =>
        /\ \A i \in 1..Len(selected_jobs) : selected_jobs[i] \in JobIds
        /\ last.op = "cancelSelected" => last.kills \subseteq JobIds

(***************************************************************************)
(* Auto-refresh: the interval timer of the SlurmJobProvider                *)
(***************************************************************************)

\* number of timer handles the runtime hands out at the same time
MaxTimers == 2

\* values of the refreshInterval setting, in seconds
Intervals == {1, 5}

\* the handle setInterval returns: one that no active timer has
NewTimer(active) == CHOOSE id \in 1..MaxTimers : \A t \in active : t.id # id

\* setupAutoRefresh, with the settings as they are after the change
setupAutoRefresh ==
    LET config  == configuration'.slurmVSCode
        cleared == IF refreshInterval # <<>>
                   THEN {t \in timers : t.id # refreshInterval[1]}
                   ELSE timers
        handle  == NewTimer(cleared)
    IN  IF config.autoRefresh
        THEN /\ refreshInterval' = <<handle>>
             /\ timers' = cleared \cup {[id |-> handle, delay |-> config.refreshInterval * 1000]}
        ELSE /\ refreshInterval' = <<>>
             /\ timers' = cleared

\* onDidChangeConfiguration for a change of slurmVSCode.autoRefresh or
\* slurmVSCode.refreshInterval, the keys the provider reads
ChangeConfiguration ==
    /\ Cardinality(timers) < MaxTimers
    /\ \E autoRefresh \in BOOLEAN, seconds \in Intervals :
          /\ [autoRefresh |-> autoRefresh, refreshInterval |-> seconds]
                # configuration.slurmVSCode
          /\ configuration' = [configuration EXCEPT
                                  !.slurmVSCode = [autoRefresh |-> autoRefresh,
                                                   refreshInterval |-> seconds]]
    /\ setupAutoRefresh
    /\ last' = Did("configuration", "", <<>>, {})
    /\ jobsSeen' = <<>>
    /\ sel0' = {}
    /\ twice' = FALSE
    /\ selPrev' = {}
    /\ UNCHANGED <<webVars, providerVars, termVars, armSel, fetchedJobs, shown,
                   notifications, posted>>

\* onDidChangeConfiguration for a change of the settings package.json
\* declares (slurmJobManager.*): affectsConfiguration is false for both keys
ChangeDeclaredSetting ==
    /\ \E autoRefresh \in BOOLEAN, seconds \in Intervals :
          /\ [autoRefresh |-> autoRefresh, refreshInterval |-> seconds]
                # configuration.slurmJobManager
          /\ configuration' = [configuration EXCEPT
                                  !.slurmJobManager = [autoRefresh |-> autoRefresh,
                                                       refreshInterval |-> seconds]]
    /\ last' = Did("declaredSetting", "", <<>>, {})
    /\ jobsSeen' = <<>>
    /\ sel0' = {}
    /\ twice' = FALSE
    /\ selPrev' = {}
    /\ UNCHANGED <<webVars, providerVars, termVars, armSel, fetchedJobs, shown,
                   notifications, posted, refreshInterval, timers>>

\* an active timer fires: refresh()
TimerTick ==
    /\ timers # {}
    /\ Refresh

NextTimer ==
    \/ ChangeConfiguration
    \/ ChangeDeclaredSetting
    \/ TimerTick

SpecTimer == Init /\ [][NextTimer]_vars

\* C38: at most one auto-refresh timer is active; after any sequence of
\* configuration changes there is exactly one, running with the configured
\* interval, when the autoRefresh setting is enabled, and none when it is
\* disabled (the settings are those the extension declares)
C38_OneTimerIffAutoRefresh ==
    /\ Cardinality(timers) <= 1
    /\ configuration.slurmJobManager.autoRefresh
          => \E id \in 1..MaxTimers :
                timers = {[id |-> id,
                           delay |-> configuration.slurmJobManager.refreshInterval * 1000]}
    /\ ~configuration.slurmJobManager.autoRefresh => timers = {}


\* ---------------------------------------------------------------------------
\* The terminal UI's cancel confirmations: the polls and the keys that build a
\* selection, and key 1 with either answer to confirm_action.
NextCancel ==
    \/ TermPoll
    \/ KeyUp
    \/ KeyDown
    \/ KeyEnter
    \/ Key1

SpecCancel == InitRedraw /\ [][NextCancel]_vars

\* C39: in the terminal UI a declined cancel confirmation dispatches no scancel
\* and leaves selected_jobs as it was; an accepted batch confirmation runs
\* scancel once for each element the selection held when key 1 was pressed
\* (one run_command, and so one redraw, per element, on top of the main loop's
\* redraw) and leaves the selection empty, whatever listing the refreshes
\* between the cancels brought.
C39_BatchCancelFollowsSelection ==
    [][/\ last'.op \in {"cancelSelectedNo", "cancelJobNo"}
          => /\ last'.kills = {}
             /\ selected_jobs' = selected_jobs
       /\ last'.op = "cancelSelected"
          => /\ last'.kills = Range(selected_jobs)
             /\ last'.draws = 1 + Cardinality(Range(selected_jobs))
             /\ selected_jobs' = <<>>]_vars

\* C39 witness: a batch of two ids was cancelled, the selection is empty, and
\* the listing refreshed in between no longer shows one of the cancelled jobs
C39_BatchCancelledAcrossRefresh ==
    /\ surface = "terminal"
    /\ last.op = "cancelSelected"
    /\ Cardinality(last.kills) = 2
    /\ last.draws = 3
    /\ selected_jobs = <<>>
    /\ ~(last.kills \subseteq Ids(jobs_data))

====
